---- MODULE Spec2Model ----
(***************************************************************************)
(* Verification model of the legal contract analyzer:                      *)
(*   - LLMProviderManager (src/src/legaldoc/utils/llm_provider_manager.py) *)
(*   - RiskDetectorAgent  (src/src/legaldoc/agents/risk_detector_agent.py) *)
(*   - the agents' pipeline (src/main.py, src/debug_runner.py and the      *)
(*     analyzer, splitter and classifier agents)                           *)
(*   - LLMClient          (src/src/legaldoc/utils/llm_client.py)           *)
(* Text is modelled as sequences of one-character strings so that the      *)
(* substring tests, the regular expression and strip() are computed.       *)
(* Offsets are Python's (0-based); At(s, i) reads s[i].                     *)
(***************************************************************************)
EXTENDS Integers, Sequences, FiniteSets, TLC

VARIABLES
    config,               \* get_config(): the three credential variables
    providers_available,  \* LLMProviderManager._providers_available
    active_provider,      \* LLMProviderManager.active_provider
    pc,                   \* where the manager / the running structured_chat is
    attempt_number,       \* tenacity's retry_state.attempt_number
    errors,               \* structured_chat's local list `errors`
    trace,                \* backend invocations of the running call, in order
    sleeps,               \* backoff sleeps of the running call, in order
    log,                  \* logger records emitted by the running call
    outcome,              \* what the last call returned or raised
    ncalls,               \* calls started so far
    last_served,          \* backend that served the previous call
    fpc,                  \* "input" before, "done" after a function is applied
    sub_results,          \* argument of _merge_subclause_risks
    merged,               \* its return value
    clause,               \* argument of _split_into_subclauses
    subclauses,           \* its return value
    entry,                \* who drives the agents: process_document, run_all
                          \* or a caller of the agents' methods
    pd_pc,                \* position in the pipeline
    in_flight,            \* the backend call that has not returned yet
    calls,                \* backend calls made so far, in order
    document_context,     \* analyze_document's return value
    clauses,              \* split_document's return value
    classifications,      \* classify_multiple_clauses's list, as it grows
    risk_arg,             \* `classifications` as passed to the risk stage
    risk_assessments,     \* detect_risks_multiple_clauses's `results`
    pd_error,             \* the exception that ended the pipeline
    workers               \* per worker: the locals of its structured_chat call

vars == <<config, providers_available, active_provider, pc, attempt_number,
          errors, trace, sleeps, log, outcome, ncalls, last_served,
          fpc, sub_results, merged, clause, subclauses,
          entry, pd_pc, in_flight, calls, document_context, clauses,
          classifications, risk_arg, risk_assessments, pd_error, workers>>

pmVars == <<config, providers_available, active_provider, pc, attempt_number,
            errors, trace, sleeps, log, outcome, ncalls, last_served>>
mergeVars == <<sub_results, merged>>
splitVars == <<clause, subclauses>>
pureVars == <<fpc, sub_results, merged, clause, subclauses>>
pipeVars == <<entry, pd_pc, in_flight, calls, document_context, clauses,
              classifications, risk_arg, risk_assessments, pd_error>>

(***************************************************************************)
(* Bounds of the model.                                                    *)
(***************************************************************************)
MaxCalls == 2
MaxSubs == 3
MaxLines == 3

(***************************************************************************)
(* Text helpers (Python str operations).                                   *)
(***************************************************************************)
At(s, i) == s[i + 1]

\* s[a:b] for 0 <= a, b <= len(s)
Slice(s, a, b) == IF b <= a THEN <<>> ELSE SubSeq(s, a + 1, b)

\* str.lower() on the letters the modelled messages use
LowerChar(c) ==
    CASE c = "A" -> "a"
      [] c = "B" -> "b"
      [] c = "C" -> "c"
      [] c = "D" -> "d"
      [] c = "E" -> "e"
      [] c = "F" -> "f"
      [] c = "G" -> "g"
      [] c = "H" -> "h"
      [] c = "I" -> "i"
      [] c = "J" -> "j"
      [] c = "K" -> "k"
      [] c = "L" -> "l"
      [] c = "M" -> "m"
      [] c = "N" -> "n"
      [] c = "O" -> "o"
      [] c = "P" -> "p"
      [] c = "Q" -> "q"
      [] c = "R" -> "r"
      [] c = "S" -> "s"
      [] c = "T" -> "t"
      [] c = "U" -> "u"
      [] c = "V" -> "v"
      [] c = "W" -> "w"
      [] c = "X" -> "x"
      [] c = "Y" -> "y"
      [] c = "Z" -> "z"
      [] OTHER -> c

Lower(s) == [i \in 1..Len(s) |-> LowerChar(s[i])]

\* `sub in s`
Contains(sub, s) ==
    \E i \in 0..(Len(s) - Len(sub)) : Slice(s, i, i + Len(sub)) = sub

\* str.isspace() / \s and \d on the modelled alphabet
IsSpace(c) == c \in {" ", "\n", "\t"}
IsDigit(c) == c \in {"0", "1", "2", "3", "4", "5", "6", "7", "8", "9"}

RECURSIVE LStrip(_)
LStrip(s) == IF s # <<>> /\ IsSpace(Head(s)) THEN LStrip(Tail(s)) ELSE s

RECURSIVE RStrip(_)
RStrip(s) ==
    IF s # <<>> /\ IsSpace(s[Len(s)]) THEN RStrip(SubSeq(s, 1, Len(s) - 1)) ELSE s

\* str.strip()
Strip(s) == RStrip(LStrip(s))

(***************************************************************************)
(* Provider manager: credentials and construction.                         *)
(***************************************************************************)
\* os.getenv(): None when unset, else the string (possibly empty)
KeyValues == {"None", "", "sk-key"}

\* mutant: `is not None` instead of truthiness
TruthyIsNotNone(v) == v # "None"

\* Python truthiness of an Optional[str]
Truthy(v) == v # "None" /\ v # ""

\* Python `a or b`
PyOr(a, b) == IF Truthy(a) THEN a ELSE b

openai_key == config.OPENAI_API_KEY
google_key == PyOr(config.GEMINI_API_KEY, config.GOOGLE_API_KEY)

NoProviders == [openai |-> FALSE, gemini |-> FALSE]

\* _initialize_providers: the availability table it leaves
InitializedProviders ==
    [openai |-> Truthy(openai_key), gemini |-> Truthy(google_key)]

\* mutant: the marker names the backend configured last
InitializedActiveLastWins ==
    IF Truthy(google_key) THEN "gemini"
    ELSE IF Truthy(openai_key) THEN "openai"
    ELSE "None"

\* _initialize_providers: the active provider it leaves
InitializedActive ==
    IF Truthy(openai_key) THEN "openai"
    ELSE IF Truthy(google_key) THEN "gemini"
    ELSE "None"

\* get_provider_name
get_provider_name == IF active_provider = "None" THEN "unknown" ELSE active_provider

(***************************************************************************)
(* Backend failures.  A raw failure is what the SDK raises inside the      *)
(* adapter's try block: its kind (what really went wrong), the except      *)
(* clause of _call_openai_structured its class selects, and its message    *)
(* (read by _call_gemini_structured and by _log_error).                    *)
(***************************************************************************)
\* "429 Quota exceeded"
m429 ==
    <<"4", "2", "9", " ", "Q", "u", "o", "t", "a", " ", "e", "x",
      "c", "e", "e", "d", "e", "d">>
\* "401 bad key"
m401 ==
    <<"4", "0", "1", " ", "b", "a", "d", " ", "k", "e", "y">>
\* "404 no GenerateContent"
m404 ==
    <<"4", "0", "4", " ", "n", "o", " ", "G", "e", "n", "e", "r",
      "a", "t", "e", "C", "o", "n", "t", "e", "n", "t">>
\* "timeout"
mTimeout ==
    <<"t", "i", "m", "e", "o", "u", "t">>
\* "invalid json"
mInvalid ==
    <<"i", "n", "v", "a", "l", "i", "d", " ", "j", "s", "o", "n">>
\* "boom"
mBoom ==
    <<"b", "o", "o", "m">>

RawErrors ==
    { [kind |-> "RateLimit",  class |-> "openai.RateLimitError", msg |-> m429],
      [kind |-> "Auth",       class |-> "openai.APIError",       msg |-> m401],
      [kind |-> "NotFound",   class |-> "openai.APIError",       msg |-> m404],
      [kind |-> "Connection", class |-> "openai.APIError",       msg |-> mTimeout],
      [kind |-> "Validation", class |-> "Exception",             msg |-> mInvalid],
      [kind |-> "Unknown",    class |-> "Exception",             msg |-> mBoom] }

\* the substrings the code looks for
\* "authentication"
kw_authentication ==
    <<"a", "u", "t", "h", "e", "n", "t", "i", "c", "a", "t", "i",
      "o", "n">>
\* "api key"
kw_api_key ==
    <<"a", "p", "i", " ", "k", "e", "y">>
\* "401"
kw_401 ==
    <<"4", "0", "1">>
\* "rate limit"
kw_rate_limit ==
    <<"r", "a", "t", "e", " ", "l", "i", "m", "i", "t">>
\* "quota"
kw_quota ==
    <<"q", "u", "o", "t", "a">>
\* "429"
kw_429 ==
    <<"4", "2", "9">>
\* "not found"
kw_not_found ==
    <<"n", "o", "t", " ", "f", "o", "u", "n", "d">>
\* "404"
kw_404 ==
    <<"4", "0", "4">>
\* "connection"
kw_connection ==
    <<"c", "o", "n", "n", "e", "c", "t", "i", "o", "n">>
\* "timeout"
kw_timeout ==
    <<"t", "i", "m", "e", "o", "u", "t">>
\* "503"
kw_503 ==
    <<"5", "0", "3">>
\* "rate"
kw_rate ==
    <<"r", "a", "t", "e">>

\* the literal texts of the f-strings and of tenacity's RetryError.__str__
\* "OpenAI rate limit: "
OpenAIRateLimitPrefix ==
    <<"O", "p", "e", "n", "A", "I", " ", "r", "a", "t", "e", " ",
      "l", "i", "m", "i", "t", ":", " ">>
\* "OpenAI API error: "
OpenAIAPIErrorPrefix ==
    <<"O", "p", "e", "n", "A", "I", " ", "A", "P", "I", " ", "e",
      "r", "r", "o", "r", ":", " ">>
\* "OpenAI unexpected error: "
OpenAIUnexpectedPrefix ==
    <<"O", "p", "e", "n", "A", "I", " ", "u", "n", "e", "x", "p",
      "e", "c", "t", "e", "d", " ", "e", "r", "r", "o", "r", ":",
      " ">>
\* "Gemini rate limit: "
GeminiRateLimitPrefix ==
    <<"G", "e", "m", "i", "n", "i", " ", "r", "a", "t", "e", " ",
      "l", "i", "m", "i", "t", ":", " ">>
\* "Gemini API error: "
GeminiAPIErrorPrefix ==
    <<"G", "e", "m", "i", "n", "i", " ", "A", "P", "I", " ", "e",
      "r", "r", "o", "r", ":", " ">>
\* "OpenAI structured call failed: "
OpenAIFailedPrefix ==
    <<"O", "p", "e", "n", "A", "I", " ", "s", "t", "r", "u", "c",
      "t", "u", "r", "e", "d", " ", "c", "a", "l", "l", " ", "f",
      "a", "i", "l", "e", "d", ":", " ">>
\* "Gemini structured call failed: "
GeminiFailedPrefix ==
    <<"G", "e", "m", "i", "n", "i", " ", "s", "t", "r", "u", "c",
      "t", "u", "r", "e", "d", " ", "c", "a", "l", "l", " ", "f",
      "a", "i", "l", "e", "d", ":", " ">>
\* "RetryError[<Future at 0x"
RetryErrorHead ==
    <<"R", "e", "t", "r", "y", "E", "r", "r", "o", "r", "[", "<",
      "F", "u", "t", "u", "r", "e", " ", "a", "t", " ", "0", "x">>
\* " state=finished raised RateLimitError>]"
RetryErrorTail ==
    <<" ", "s", "t", "a", "t", "e", "=", "f", "i", "n", "i", "s",
      "h", "e", "d", " ", "r", "a", "i", "s", "e", "d", " ", "R",
      "a", "t", "e", "L", "i", "m", "i", "t", "E", "r", "r", "o",
      "r", ">", "]">>
\* "7f3a1c0d"
addrPlain ==
    <<"7", "f", "3", "a", "1", "c", "0", "d">>
\* "7f3a4290"
addr429 ==
    <<"7", "f", "3", "a", "4", "2", "9", "0">>

\* id() of the Future inside a RetryError: any address
FutureAddrs == {addrPlain, addr429}

(***************************************************************************)
(* Provider manager: adapters, retry policy and structured_chat.           *)
(***************************************************************************)
\* stop_after_attempt(3)
max_attempts == 3
\* wait_exponential(multiplier=1, min=1, max=60)
wait_multiplier == 1
wait_min == 1
wait_max == 60

Max2(a, b) == IF a >= b THEN a ELSE b
Min2(a, b) == IF a <= b THEN a ELSE b

\* mutant: the exponent is the attempt number
wait_exponential_from_two(n) ==
    Max2(Max2(0, wait_min), Min2(wait_multiplier * 2 ^ n, wait_max))

\* tenacity wait_exponential.__call__: seconds slept after attempt n
wait_exponential(n) ==
    Max2(Max2(0, wait_min), Min2(wait_multiplier * 2 ^ (n - 1), wait_max))

\* except-clauses of _call_openai_structured: the exception it raises for raw
CallOpenAIRaises(raw) ==
    IF raw.class = "openai.RateLimitError"
    THEN [class |-> "RateLimitError", text |-> OpenAIRateLimitPrefix \o raw.msg]
    ELSE IF raw.class = "openai.APIError"
    THEN [class |-> "APIError", text |-> OpenAIAPIErrorPrefix \o raw.msg]
    ELSE [class |-> "APIError", text |-> OpenAIUnexpectedPrefix \o raw.msg]

\* the test of _call_gemini_structured's except-clause
GeminiLooksRateLimited(error_msg) ==
    \/ Contains(kw_quota, error_msg)
    \/ Contains(kw_rate, error_msg)
    \/ Contains(kw_429, error_msg)

\* except-clause of _call_gemini_structured: the exception it raises for raw
CallGeminiRaises(raw) ==
    IF GeminiLooksRateLimited(Lower(raw.msg))
    THEN [class |-> "RateLimitError", text |-> GeminiRateLimitPrefix \o raw.msg]
    ELSE [class |-> "APIError", text |-> GeminiAPIErrorPrefix \o raw.msg]

AdapterRaises(b, raw) ==
    IF b = "openai" THEN CallOpenAIRaises(raw) ELSE CallGeminiRaises(raw)

\* retry=retry_if_exception_type((RateLimitError,))
RetryPredicate(exc) == exc.class = "RateLimitError"

\* mutant: the stop condition is off by one (a fourth attempt is made)
RetryDecisionOffByOne(exc, n) ==
    IF ~RetryPredicate(exc) THEN "reraise"
    ELSE IF n > max_attempts THEN "retry_error"
    ELSE "sleep"

\* One round of tenacity's loop after the wrapped function raised exc on
\* attempt n: "reraise" (predicate false: the exception passes through),
\* "retry_error" (stop reached, reraise not set: RetryError is raised) or
\* "sleep" (wait, then attempt n + 1).
RetryDecision(exc, n) ==
    IF ~RetryPredicate(exc) THEN "reraise"
    ELSE IF n >= max_attempts THEN "retry_error"
    ELSE "sleep"

\* class of what the decorated adapter finally raises to structured_chat
RaisedClass(exc, decision) ==
    IF decision = "retry_error" THEN "RetryError" ELSE exc.class

\* mutant: `except LLMProviderError`, which a RetryError is not
CaughtOnlyProviderErrors(cls) == cls \in {"RateLimitError", "APIError"}

\* `except Exception` in structured_chat: every class raised derives from it
CaughtByExcept(cls) ==
    cls \in {"RetryError", "RateLimitError", "APIError", "Exception"}

\* str() of what the decorated adapter finally raises to structured_chat
RaisedText(exc, decision, addr) ==
    IF decision = "retry_error"
    THEN RetryErrorHead \o addr \o RetryErrorTail
    ELSE exc.text

\* the branch _log_error takes for error_msg
LogErrorKind(error_msg) ==
    LET error_lower == Lower(error_msg) IN
    IF \/ Contains(kw_authentication, error_lower)
       \/ Contains(kw_api_key, error_lower)
       \/ Contains(kw_401, error_lower)
    THEN "auth"
    ELSE IF \/ Contains(kw_rate_limit, error_lower)
            \/ Contains(kw_quota, error_lower)
            \/ Contains(kw_429, error_lower)
    THEN "rate_limit"
    ELSE IF Contains(kw_not_found, error_lower) \/ Contains(kw_404, error_lower)
    THEN "not_found"
    ELSE IF \/ Contains(kw_connection, error_lower)
            \/ Contains(kw_timeout, error_lower)
            \/ Contains(kw_503, error_lower)
    THEN "connection"
    ELSE "other"

\* logger level of the record _log_error emits
LogErrorLevel(error_msg) ==
    IF LogErrorKind(error_msg) = "rate_limit" THEN "WARNING" ELSE "ERROR"

FailedPrefix(b) == IF b = "openai" THEN OpenAIFailedPrefix ELSE GeminiFailedPrefix

Backends == {"openai", "gemini"}

\* mutant: the call starts at the backend that served the previous call
FirstBackendSticky(available, previous) ==
    IF previous # "None" /\ available[previous] THEN previous
    ELSE IF available["openai"] THEN "openai"
    ELSE IF available["gemini"] THEN "gemini"
    ELSE "None"

\* structured_chat: the backend tried first
FirstBackend(available, previous) ==
    IF available["openai"] THEN "openai"
    ELSE IF available["gemini"] THEN "gemini"
    ELSE "None"

\* structured_chat: the backend tried after b has failed
BackendAfter(b, available) ==
    IF b = "openai" /\ available["gemini"] THEN "gemini" ELSE "None"

NoOutcome ==
    [status |-> "none", class |-> "None", by |-> "None", value |-> "None",
     payload |-> <<>>]

\* what a backend invocation can do: return a validated object or raise
Objects == {"obj1", "obj2"}
Responses ==
    [ok : {TRUE}, value : Objects, raw : {[kind |-> "ok", class |-> "None", msg |-> <<>>]}]
    \cup [ok : {FALSE}, value : {"None"}, raw : RawErrors]

AttemptRecord(b, n, r) ==
    [backend |-> b, attempt |-> n, ok |-> r.ok, kind |-> r.raw.kind,
     msg |-> r.raw.msg, value |-> r.value]

IdleMerge == /\ sub_results = <<>>
             /\ merged = <<>>
IdleSplit == /\ clause = <<>>
             /\ subclauses = <<>>
\* no backend call in flight, no error, no document context yet
NoCall == [stage |-> "None"]
NoError == [class |-> "None"]
NoContext == [document_type |-> "None"]
IdlePipe ==
    /\ entry = "None"
    /\ pd_pc = "off"
    /\ in_flight = NoCall
    /\ calls = <<>>
    /\ document_context = NoContext
    /\ clauses = <<>>
    /\ classifications = <<>>
    /\ risk_arg = <<>>
    /\ risk_assessments = <<>>
    /\ pd_error = NoError
\* no worker is using the manager
IdleWorkers == workers = <<>>
IdleManager ==
    /\ config = [OPENAI_API_KEY |-> "None", GEMINI_API_KEY |-> "None",
                 GOOGLE_API_KEY |-> "None"]
    /\ providers_available = NoProviders
    /\ active_provider = "None"
    /\ pc = "off"
    /\ attempt_number = 0
    /\ errors = <<>>
    /\ trace = <<>>
    /\ sleeps = <<>>
    /\ log = <<>>
    /\ outcome = NoOutcome
    /\ ncalls = 0
    /\ last_served = "None"

\* LLMProviderManager.__init__ up to the call of _initialize_providers
Init ==
    /\ config \in [OPENAI_API_KEY : KeyValues, GEMINI_API_KEY : KeyValues,
                    GOOGLE_API_KEY : KeyValues]
    /\ providers_available = NoProviders
    /\ active_provider = "None"
    /\ pc = "new"
    /\ attempt_number = 0
    /\ errors = <<>>
    /\ trace = <<>>
    /\ sleeps = <<>>
    /\ log = <<>>
    /\ outcome = NoOutcome
    /\ ncalls = 0
    /\ last_served = "None"
    /\ fpc = "off"
    /\ IdleMerge
    /\ IdleSplit
    /\ IdlePipe
    /\ IdleWorkers

\* _initialize_providers; raising AllProvidersFailedError leaves no manager
Construct ==
    /\ pc = "new"
    /\ providers_available' = InitializedProviders
    /\ active_provider' = InitializedActive
    /\ pc' = IF InitializedProviders["openai"] \/ InitializedProviders["gemini"]
             THEN "ready" ELSE "ctor_failed"
    /\ UNCHANGED <<config, attempt_number, errors, trace, sleeps, log, outcome,
                   ncalls, last_served, pureVars, pipeVars>>
    /\ UNCHANGED workers

\* structured_chat is entered: errors = [] and the first backend is chosen
StartCall ==
    /\ pc \in {"ready", "returned", "raised"}
    /\ ncalls < MaxCalls
    /\ ncalls' = ncalls + 1
    /\ errors' = <<>>
    /\ trace' = <<>>
    /\ sleeps' = <<>>
    /\ log' = <<>>
    /\ attempt_number' = 1
    /\ LET b == FirstBackend(providers_available, last_served) IN
       IF b = "None"
       THEN /\ pc' = "raised"
            /\ outcome' = [status |-> "raised", class |-> "AllProvidersFailedError",
                           by |-> "None", value |-> "None", payload |-> <<>>]
       ELSE /\ pc' = b
            /\ outcome' = NoOutcome
    /\ UNCHANGED <<config, providers_available, active_provider, last_served,
                   pureVars, pipeVars>>
    /\ UNCHANGED workers

\* One invocation of backend b by its decorated adapter, with everything
\* that follows it up to the next invocation or the end of the call.
BackendAttempt(b) ==
    /\ pc = b
    /\ \E r \in Responses :
         /\ trace' = Append(trace, AttemptRecord(b, attempt_number, r))
         /\ IF r.ok
            THEN /\ pc' = "returned"
                 /\ outcome' = [status |-> "returned", class |-> "None", by |-> b,
                                value |-> r.value, payload |-> <<>>]
                 /\ last_served' = b
                 /\ UNCHANGED <<attempt_number, errors, sleeps, log>>
            ELSE LET exc == AdapterRaises(b, r.raw)
                     decision == RetryDecision(exc, attempt_number)
                 IN  IF decision = "sleep"
                     THEN /\ sleeps' = Append(sleeps,
                                 [backend |-> b, after |-> attempt_number,
                                  seconds |-> wait_exponential(attempt_number)])
                          /\ log' = Append(log, [level |-> "WARNING", provider |-> b,
                                                 what |-> "retrying"])
                          /\ attempt_number' = attempt_number + 1
                          /\ UNCHANGED <<pc, errors, outcome, last_served>>
                     ELSE IF ~CaughtByExcept(RaisedClass(exc, decision))
                     THEN /\ pc' = "raised"
                          /\ outcome' = [status |-> "raised",
                                         class |-> RaisedClass(exc, decision),
                                         by |-> "None", value |-> "None",
                                         payload |-> <<>>]
                          /\ last_served' = "None"
                          /\ UNCHANGED <<attempt_number, errors, sleeps, log>>
                     ELSE \E addr \in (IF decision = "retry_error"
                                        THEN FutureAddrs ELSE {<<>>}) :
                          LET text == RaisedText(exc, decision, addr)
                              errs == Append(errors, FailedPrefix(b) \o text)
                              nxt == BackendAfter(b, providers_available)
                              logged == Append(log,
                                  [level |-> LogErrorLevel(text), provider |-> b,
                                   what |-> LogErrorKind(text)])
                          IN  /\ errors' = errs
                              /\ log' = IF b = "openai" /\ providers_available["gemini"]
                                        THEN Append(logged, [level |-> "INFO",
                                                 provider |-> b, what |-> "fallback"])
                                        ELSE logged
                              /\ attempt_number' = 1
                              /\ UNCHANGED <<sleeps>>
                              /\ IF nxt = "None"
                                 THEN /\ pc' = "raised"
                                      /\ outcome' = [status |-> "raised",
                                             class |-> "AllProvidersFailedError",
                                             by |-> "None", value |-> "None",
                                             payload |-> errs]
                                      /\ last_served' = "None"
                                 ELSE /\ pc' = nxt
                                      /\ UNCHANGED <<outcome, last_served>>
    /\ UNCHANGED <<config, providers_available, active_provider, ncalls,
                   pureVars, pipeVars>>
    /\ UNCHANGED workers

OpenAIAttempt == BackendAttempt("openai")
GeminiAttempt == BackendAttempt("gemini")

Next == Construct \/ StartCall \/ OpenAIAttempt \/ GeminiAttempt

Spec == Init /\ [][Next]_vars

\* every backend invocation returns or raises, and every sleep ends
SpecLive ==
    Spec /\ WF_vars(OpenAIAttempt) /\ WF_vars(GeminiAttempt)

(***************************************************************************)
(* Claims about the provider manager (specification Spec).                 *)
(***************************************************************************)
AttemptsOn(b) == {i \in 1..Len(trace) : trace[i].backend = b}
FailureRecords(b) ==
    {i \in 1..Len(log) : log[i].provider = b /\ log[i].level # "INFO"}
BothConfigured == providers_available["openai"] /\ providers_available["gemini"]
Configured == {b \in Backends : providers_available[b]}
LastAttemptOn(b) ==
    trace[CHOOSE i \in AttemptsOn(b) : \A j \in AttemptsOn(b) : j <= i]

\* the running call returned although every attempt on OpenAI was rate limited
C1_Case ==
    /\ pc = "returned"
    /\ BothConfigured
    /\ AttemptsOn("openai") # {}
    /\ \A i \in AttemptsOn("openai") : trace[i].kind = "RateLimit"

\* C1: with OpenAI and Gemini configured, when every attempt on OpenAI fails
\* with RateLimit and the call returns, it returns the object Gemini produced,
\* exactly max_attempts invocations of OpenAI precede the first invocation of
\* Gemini, and the log holds exactly max_attempts failure records against
\* OpenAI (max_attempts - 1 retry warnings and the final error record).
C1_FailoverAfterRateLimits ==
    C1_Case =>
        /\ outcome.status = "returned"
        /\ outcome.by = "gemini"
        /\ trace[Len(trace)].backend = "gemini"
        /\ trace[Len(trace)].ok
        /\ outcome.value = trace[Len(trace)].value
        /\ AttemptsOn("openai") = 1..max_attempts
        /\ Cardinality(FailureRecords("openai")) = max_attempts
        /\ Cardinality({i \in FailureRecords("openai") : log[i].what = "retrying"})
              = max_attempts - 1

C1_Witness ==
    /\ C1_Case
    /\ Len(trace) = max_attempts + 1
    /\ outcome.by = "gemini"

\* C2: when the call raises AllProvidersFailedError, its payload holds one
\* entry per configured backend, in priority order, and each entry contains
\* the message of the last error that backend raised; no value is returned.
C2_PayloadCarriesLastMessages ==
    (pc = "raised" /\ outcome.class = "AllProvidersFailedError") =>
        /\ outcome.value = "None"
        /\ Len(outcome.payload) = Cardinality(Configured)
        /\ \A b \in Configured :
             LET k == IF b = "gemini" /\ providers_available["openai"] THEN 2 ELSE 1
             IN  /\ AttemptsOn(b) # {}
                 /\ k <= Len(outcome.payload)
                 /\ Contains(FailedPrefix(b), outcome.payload[k])
                 /\ Contains(LastAttemptOn(b).msg, outcome.payload[k])

\* C3: a failure of a kind other than RateLimit is the last invocation of its
\* backend in the call and no backoff sleep follows it; backoff sleeps follow
\* RateLimit failures only.
C3_NonRateLimitNotRetried ==
    /\ \A i \in 1..Len(trace) :
         (~trace[i].ok /\ trace[i].kind # "RateLimit") =>
             /\ \A j \in 1..Len(trace) : j > i => trace[j].backend # trace[i].backend
             /\ \A s \in 1..Len(sleeps) :
                  ~(sleeps[s].backend = trace[i].backend
                    /\ sleeps[s].after = trace[i].attempt)
    /\ \A s \in 1..Len(sleeps) :
         \E i \in 1..Len(trace) :
             /\ trace[i].backend = sleeps[s].backend
             /\ trace[i].attempt = sleeps[s].after
             /\ trace[i].kind = "RateLimit"

\* C4: a finished call either returned the object of its last, successful
\* backend invocation, or raised AllProvidersFailedError without a value;
\* no other exception class reaches the caller.
C4_ReturnsValidatedOrRaisesAllFailed ==
    pc \in {"returned", "raised"} =>
        \/ /\ outcome.status = "returned"
           /\ pc = "returned"
           /\ trace # <<>>
           /\ trace[Len(trace)].ok
           /\ outcome.value = trace[Len(trace)].value
           /\ outcome.value \in Objects
           /\ outcome.by = trace[Len(trace)].backend
        \/ /\ outcome.status = "raised"
           /\ pc = "raised"
           /\ outcome.class = "AllProvidersFailedError"
           /\ outcome.value = "None"
           /\ \A i \in 1..Len(trace) : ~trace[i].ok

C4_Witness ==
    /\ pc = "raised"
    /\ outcome.class = "AllProvidersFailedError"
    /\ BothConfigured
    /\ Len(trace) = 2 * max_attempts

\* C5: in every call the invocations are OpenAI's first (when configured) and
\* Gemini's only after OpenAI failed in this call or when OpenAI is not
\* configured, whatever backend served the previous call; an unconfigured
\* backend is never invoked and nothing is invoked after a success.
C5_FixedPriorityOrder ==
    /\ \A i \in 1..Len(trace) : providers_available[trace[i].backend]
    /\ \A i \in 1..Len(trace) : i < Len(trace) => ~trace[i].ok
    /\ (trace # <<>> /\ providers_available["openai"]) => trace[1].backend = "openai"
    /\ \A i, j \in 1..Len(trace) :
         (i < j /\ trace[i].backend = "gemini") => trace[j].backend = "gemini"
    /\ (pc \in Backends /\ providers_available["openai"] /\ trace = <<>>) => pc = "openai"
    /\ (pc = "gemini" \/ AttemptsOn("gemini") # {}) =>
         \/ ~providers_available["openai"]
         \/ /\ AttemptsOn("openai") # {}
            /\ ~LastAttemptOn("openai").ok

C5_Witness ==
    /\ ncalls = 2
    /\ last_served = "gemini"
    /\ BothConfigured
    /\ Len(trace) = 1
    /\ trace[1].backend = "openai"

\* C6: once construction has run, a backend is available exactly when its
\* credential is a non-empty string, and no backend has been invoked by it;
\* with no credential at all construction fails and no call is ever made.
C6_AvailabilityFromCredentials ==
    LET present(v) == v \notin {"None", ""}
        has_openai == present(config.OPENAI_API_KEY)
        has_gemini == present(config.GEMINI_API_KEY) \/ present(config.GOOGLE_API_KEY)
    IN  /\ pc # "new" =>
             /\ providers_available["openai"] <=> has_openai
             /\ providers_available["gemini"] <=> has_gemini
             /\ (has_openai \/ has_gemini) <=> pc # "ctor_failed"
        /\ pc \in {"new", "ready", "ctor_failed"} =>
             /\ trace = <<>>
             /\ ncalls = 0
             /\ outcome = NoOutcome
        /\ (~has_openai /\ ~has_gemini) => pc \in {"new", "ctor_failed"}

C6_Witness ==
    /\ pc = "ctor_failed"
    /\ config.OPENAI_API_KEY = ""
    /\ config.GOOGLE_API_KEY = ""

C6_WitnessAvailable ==
    /\ pc = "ready"
    /\ config.OPENAI_API_KEY = ""
    /\ providers_available["gemini"]
    /\ ~providers_available["openai"]

\* a manager exists: construction succeeded
C26_Constructed == pc \in {"ready", "openai", "gemini", "returned", "raised"}

\* C26: after construction, before, during and after every structured_chat
\* call (served by the primary, served after failover, or failed), the
\* availability table is the one the credentials gave and the active
\* marker, which get_provider_name returns, is the primary configured
\* backend: openai if it is available, else gemini.
C26_ActiveMarkerIsAdvisory ==
    C26_Constructed =>
        /\ providers_available["openai"] <=>
               config.OPENAI_API_KEY \notin {"None", ""}
        /\ providers_available["gemini"] <=>
               \/ config.GEMINI_API_KEY \notin {"None", ""}
               \/ config.GOOGLE_API_KEY \notin {"None", ""}
        /\ active_provider =
               IF providers_available["openai"] THEN "openai" ELSE "gemini"
        /\ get_provider_name = active_provider

\* the second call was served by Gemini after OpenAI failed; the marker
\* still names openai
C26_Witness ==
    /\ pc = "returned"
    /\ ncalls = 2
    /\ outcome.by = "gemini"
    /\ last_served = "gemini"
    /\ AttemptsOn("openai") # {}
    /\ get_provider_name = "openai"

C28_SleepsOn(b) == {i \in 1..Len(sleeps) : sleeps[i].backend = b}
C28_Running == pc \in {"openai", "gemini"}
C28_Ended == pc \in {"returned", "raised"}

\* what holds of a call at every moment: at most 3 invocations and 2 sleeps
\* per backend, 6 invocations in all, the sleep after attempt k lasting
\* min(60, max(1, 2^(k-1))) seconds, none after a third attempt, and each
\* sleep followed by another attempt once the call has ended
C28_Bounded ==
    /\ Len(trace) <= 6
    /\ \A b \in Backends :
          /\ Cardinality(AttemptsOn(b)) <= 3
          /\ Cardinality(C28_SleepsOn(b)) <= 2
          /\ C28_Ended /\ AttemptsOn(b) # {} =>
                 Cardinality(C28_SleepsOn(b)) = Cardinality(AttemptsOn(b)) - 1
    /\ \A i \in 1..Len(sleeps) :
          LET k == sleeps[i].after
              pow == 2 ^ (k - 1)
              atLeast1 == IF pow >= 1 THEN pow ELSE 1
          IN  /\ k \in 1..2
              /\ sleeps[i].seconds = IF atLeast1 <= 60 THEN atLeast1 ELSE 60

\* C28: provided every backend invocation returns or raises, each
\* structured_chat call ends, after at most 3 invocations of each configured
\* backend (6 in all) and at most 2 sleeps per backend, the sleep after
\* attempt k lasting min(60, max(1, 2^(k-1))) seconds and none following a
\* backend's final attempt.
C28_TerminatesWithinBounds ==
    /\ []C28_Bounded
    /\ C28_Running ~> C28_Ended

\* the longest call: three rate-limited attempts on each backend, sleeps of
\* 1 s and 2 s on each
C28_Witness ==
    /\ pc = "raised"
    /\ Len(trace) = 6
    /\ Len(sleeps) = 4
    /\ sleeps[1] = [backend |-> "openai", after |-> 1, seconds |-> 1]
    /\ sleeps[2] = [backend |-> "openai", after |-> 2, seconds |-> 2]
    /\ sleeps[4] = [backend |-> "gemini", after |-> 2, seconds |-> 2]

(***************************************************************************)
(* Risk merger: RiskDetectorAgent._merge_subclause_risks.                  *)
(* Dictionaries are records; risk_score is in hundredths (0.5 is 50).      *)
(***************************************************************************)
\* the default 'unknown' of clause.get('clause_id', 'unknown')
unknown_id == <<"u", "n", "k", "n", "o", "w", "n">>

\* dict.get(key, default)
Get(d, key, default) == IF key \in DOMAIN d THEN d[key] ELSE default

\* Python None where a dictionary is expected
PyNone == [py |-> "None"]

Range(s) == {s[i] : i \in 1..Len(s)}

\* mutant: the order is upside down
risk_order_ascending(level) ==
    IF level = "HIGH" THEN 1
    ELSE IF level = "MEDIUM" THEN 2
    ELSE IF level = "LOW" THEN 3
    ELSE IF level = "NONE" THEN 4
    ELSE 0

\* risk_order.get(level, 0)
risk_order(level) ==
    CASE level = "HIGH" -> 4
      [] level = "MEDIUM" -> 3
      [] level = "LOW" -> 2
      [] level = "NONE" -> 1
      [] OTHER -> 0

\* the sort key: risk_order.get(r.get('risk_level', 'NONE'), 0)
SortKey(r) == risk_order(Get(r, "risk_level", "NONE"))

\* mutant: ties are ordered last occurrence first (an unstable descending sort)
RECURSIVE InsertDescUnstable(_, _)
InsertDescUnstable(sorted, r) ==
    IF sorted = <<>> THEN <<r>>
    ELSE IF SortKey(Head(sorted)) > SortKey(r)
    THEN <<Head(sorted)>> \o InsertDescUnstable(Tail(sorted), r)
    ELSE <<r>> \o sorted

\* insertion of r behind every element whose key is >= its own
RECURSIVE InsertDesc(_, _)
InsertDesc(sorted, r) ==
    IF sorted = <<>> THEN <<r>>
    ELSE IF SortKey(Head(sorted)) >= SortKey(r)
    THEN <<Head(sorted)>> \o InsertDesc(Tail(sorted), r)
    ELSE <<r>> \o sorted

\* sorted(sub_results, key=..., reverse=True): stable, descending
RECURSIVE SortedDesc(_)
SortedDesc(s) ==
    IF s = <<>> THEN <<>>
    ELSE InsertDesc(SortedDesc(SubSeq(s, 1, Len(s) - 1)), s[Len(s)])

\* the loop that extends all_risks / all_recommendations with r.get(key, [])
RECURSIVE ExtendAll(_, _)
ExtendAll(s, key) ==
    IF s = <<>> THEN <<>>
    ELSE Get(Head(s), key, <<>>) \o ExtendAll(Tail(s), key)

\* mutant: the collected risks are deduplicated like the recommendations
RECURSIVE AllRisksDeduplicated(_)
AllRisksDeduplicated(s) ==
    IF s = <<>> THEN <<>>
    ELSE LET rest == AllRisksDeduplicated(SubSeq(s, 1, Len(s) - 1))
             more == Get(s[Len(s)], "identified_risks", <<>>)
         IN  rest \o SelectSeq(more, LAMBDA x : x \notin Range(rest))

\* all_risks after the loop
AllRisks(s) == ExtendAll(s, "identified_risks")

\* mutant: the recommendations are not deduplicated
KeepDuplicates(s) == s

\* list(dict.fromkeys(s)): first occurrences, in order
RECURSIVE DictFromKeys(_)
DictFromKeys(s) ==
    IF s = <<>> THEN <<>>
    ELSE LET rest == DictFromKeys(SubSeq(s, 1, Len(s) - 1))
         IN  IF s[Len(s)] \in Range(rest) THEN rest ELSE Append(rest, s[Len(s)])

\* _merge_subclause_risks(parent_clause, sub_results), sub_results non-empty
merge_subclause_risks(parent_clause, subs) ==
    LET sorted_results == SortedDesc(subs)
        highest == sorted_results[1]
        all_risks == AllRisks(subs)
        all_recommendations == ExtendAll(subs, "recommendations")
        unique_recs == DictFromKeys(all_recommendations)
    IN  [clause_id |-> Get(parent_clause, "clause_id", unknown_id),
         risk_level |-> Get(highest, "risk_level", "NONE"),
         risk_score |-> Get(highest, "risk_score", 0),
         identified_risks |-> all_risks,
         recommendations |-> unique_recs,
         overall_assessment |-> Get(highest, "overall_assessment", ""),
         original_clause |-> parent_clause,
         classification |-> IF subs # <<>>
                            THEN Get(subs[1], "classification", PyNone)
                            ELSE PyNone,
         sub_clause_results |-> subs]

\* mutant: a failed analysis is reported as a clean clause
create_fallback_as_safe(c) ==
    [clause_id |-> Get(c, "clause_id", unknown_id),
     risk_level |-> "NONE",
     risk_score |-> 0,
     identified_risks |-> <<>>,
     recommendations |-> <<>>,
     overall_assessment |-> "",
     original_clause |-> c]

\* _create_fallback_risk_assessment(clause)
create_fallback_risk_assessment(c) ==
    [clause_id |-> Get(c, "clause_id", unknown_id),
     risk_level |-> "MEDIUM",
     risk_score |-> 50,
     identified_risks |->
         <<[risk_type |-> "Analysis Failed",
            description |-> "Risk analysis could not be completed",
            severity |-> "MEDIUM",
            impact |-> "Unable to assess potential impact"]>>,
     recommendations |-> <<"Manual review recommended due to analysis failure">>,
     overall_assessment |-> "Risk assessment failed - manual review required",
     original_clause |-> c]

\* detect_risks, success path: model_dump() plus the two context entries
detect_risks_result(reply, c, classification) ==
    [clause_id |-> reply.clause_id,
     risk_level |-> reply.risk_level,
     risk_score |-> reply.risk_score,
     identified_risks |-> reply.identified_risks,
     recommendations |-> reply.recommendations,
     overall_assessment |-> reply.overall_assessment,
     original_clause |-> c,
     classification |-> classification]

(***************************************************************************)
(* Inputs of the merger.                                                   *)
(***************************************************************************)
riskA == [risk_type |-> "Overbroad Language", description |-> "dA",
          severity |-> "HIGH", impact |-> "iA"]
riskB == [risk_type |-> "Missing Limitation", description |-> "dB",
          severity |-> "LOW", impact |-> "iB"]

\* RiskLevel of the schema, and a value outside it
RiskLevels == {"NONE", "LOW", "MEDIUM", "HIGH"}
UnrecognizedLevels == {"CRITICAL"}

\* two reply bodies per level: different score, risks, recommendations, text
ReplyBodies ==
    { [risk_score |-> 10, identified_risks |-> <<riskA>>,
       recommendations |-> <<"narrow the scope", "add a cap">>,
       overall_assessment |-> "assessment one"],
      [risk_score |-> 90, identified_risks |-> <<riskA, riskB>>,
       recommendations |-> <<"add a cap", "add a term", "add a cap">>,
       overall_assessment |-> "assessment two"] }

SampleSubClause ==
    [clause_id |-> <<"c", "1", "_", "s", "u", "b", "_", "1">>, clause_number |-> <<"2", ".", "1">>,
     clause_title |-> "Confidentiality", clause_text |-> <<"2", ".", "1", " ", "a">>,
     clause_type |-> "section"]
SampleParent ==
    [clause_id |-> <<"c", "1">>, clause_number |-> <<"2">>,
     clause_title |-> "Confidentiality", clause_text |-> <<"2", ".", "1", " ", "a">>,
     clause_type |-> "section"]
SampleClassification ==
    [clause_id |-> <<"c", "1">>, category |-> "Confidentiality", confidence |-> 90]

Reply(level, body) ==
    [clause_id |-> SampleSubClause.clause_id,
     risk_level |-> level,
     risk_score |-> body.risk_score,
     identified_risks |-> body.identified_risks,
     recommendations |-> body.recommendations,
     overall_assessment |-> body.overall_assessment]

SubResultPool ==
    { detect_risks_result(Reply(l, b), SampleSubClause, SampleClassification) :
          l \in RiskLevels \cup UnrecognizedLevels, b \in ReplyBodies }
    \cup {create_fallback_risk_assessment(SampleSubClause)}

InitMerge ==
    /\ IdleManager
    /\ IdleSplit
    /\ IdlePipe
    /\ IdleWorkers
    /\ fpc = "input"
    /\ sub_results \in UNION {[1..n -> SubResultPool] : n \in 1..MaxSubs}
    /\ merged = <<>>

\* the call of _merge_subclause_risks
Merge ==
    /\ fpc = "input"
    /\ sub_results # <<>>
    /\ merged' = merge_subclause_risks(SampleParent, sub_results)
    /\ fpc' = "done"
    /\ UNCHANGED <<pmVars, sub_results, splitVars, pipeVars>>
    /\ UNCHANGED workers

NextMerge == Merge

SpecMerge == InitMerge /\ [][NextMerge]_vars

(***************************************************************************)
(* Claims about the merger (specification SpecMerge).                      *)
(***************************************************************************)
\* the order of the claim: HIGH > MEDIUM > LOW > NONE > anything else
Severity(level) ==
    IF level = "HIGH" THEN 4
    ELSE IF level = "MEDIUM" THEN 3
    ELSE IF level = "LOW" THEN 2
    ELSE IF level = "NONE" THEN 1
    ELSE 0

\* index of the first sub-result of maximal severity
Selected ==
    CHOOSE i \in 1..Len(sub_results) :
        /\ \A j \in 1..Len(sub_results) :
             Severity(sub_results[j].risk_level) <= Severity(sub_results[i].risk_level)
        /\ \A j \in 1..(i - 1) :
             Severity(sub_results[j].risk_level) < Severity(sub_results[i].risk_level)

\* C7: the merged risk_level, risk_score and overall_assessment are those of
\* the first sub-result whose risk_level is maximal under
\* HIGH > MEDIUM > LOW > NONE > unrecognized, whatever the other scores are.
C7_MergeTakesFirstMaximal ==
    fpc = "done" =>
        /\ merged.risk_level = sub_results[Selected].risk_level
        /\ merged.risk_score = sub_results[Selected].risk_score
        /\ merged.overall_assessment = sub_results[Selected].overall_assessment

\* a tie on the maximal level, the selected one having the lower score
C7_Witness ==
    /\ fpc = "done"
    /\ Len(sub_results) = 3
    /\ sub_results[1].risk_level = "LOW"
    /\ sub_results[1].risk_score = 90
    /\ sub_results[2].risk_level = "HIGH"
    /\ sub_results[2].risk_score = 10
    /\ sub_results[3].risk_level = "HIGH"
    /\ sub_results[3].risk_score = 90
    /\ merged.risk_score = 10

RECURSIVE RiskCountBefore(_)
RiskCountBefore(i) ==
    IF i <= 1 THEN 0
    ELSE RiskCountBefore(i - 1) + Len(sub_results[i - 1].identified_risks)

\* C8: the merged identified_risks holds every sub-result's risks, in
\* sub-clause order and unchanged; its length is the sum of their counts.
C8_RisksConcatenated ==
    fpc = "done" =>
        /\ Len(merged.identified_risks) = RiskCountBefore(Len(sub_results) + 1)
        /\ \A i \in 1..Len(sub_results) :
             \A k \in 1..Len(sub_results[i].identified_risks) :
                 merged.identified_risks[RiskCountBefore(i) + k]
                     = sub_results[i].identified_risks[k]

\* a fallback record among sub-results that repeat a risk
C8_Witness ==
    /\ fpc = "done"
    /\ Len(sub_results) = 3
    /\ sub_results[2] = create_fallback_risk_assessment(SampleSubClause)
    /\ sub_results[1].identified_risks = <<riskA>>
    /\ sub_results[3].identified_risks = <<riskA, riskB>>
    /\ Len(merged.identified_risks) = 4
    /\ merged.identified_risks[2].risk_type = "Analysis Failed"

\* every recommendation of every sub-result, in input order
C9_AllInputs == ExtendAll(sub_results, "recommendations")
C9_FirstIndex(s, x) == CHOOSE i \in 1..Len(s) : s[i] = x /\ \A j \in 1..(i - 1) : s[j] # x

\* C9: the merged recommendations hold every input recommendation exactly
\* once, ordered by first occurrence in the concatenated input.
C9_RecommendationsDeduplicated ==
    fpc = "done" =>
        LET recs == merged.recommendations IN
        /\ \A i, j \in 1..Len(recs) : i # j => recs[i] # recs[j]
        /\ Range(recs) = Range(C9_AllInputs)
        /\ \A i, j \in 1..Len(recs) :
             i < j => C9_FirstIndex(C9_AllInputs, recs[i]) < C9_FirstIndex(C9_AllInputs, recs[j])

C9_Witness ==
    /\ fpc = "done"
    /\ Len(sub_results) = 2
    /\ sub_results[1].recommendations = <<"add a cap", "add a term", "add a cap">>
    /\ sub_results[2].recommendations = <<"narrow the scope", "add a cap">>
    /\ merged.recommendations = <<"add a cap", "add a term", "narrow the scope">>

(***************************************************************************)
(* Clause decomposer: RiskDetectorAgent._split_into_subclauses.            *)
(* The pattern is (?:^|\n)\s*(NUM\.\d+)\s with NUM = re.escape(number);    *)
(* a match is [start, end, g_start, g_end] in Python offsets (end          *)
(* exclusive), g_* being the span of group 1.                              *)
(***************************************************************************)
NoMatch == [start |-> -1, end |-> -1, g_start |-> -1, g_end |-> -1]

SetMax(S) == CHOOSE x \in S : \A y \in S : y <= x

\* length of the run of whitespace (\s*) / of digits (\d+) starting at offset q
RECURSIVE SpaceRun(_, _)
SpaceRun(text, q) ==
    IF q < Len(text) /\ IsSpace(At(text, q)) THEN 1 + SpaceRun(text, q + 1) ELSE 0

RECURSIVE DigitRun(_, _)
DigitRun(text, q) ==
    IF q < Len(text) /\ IsDigit(At(text, q)) THEN 1 + DigitRun(text, q + 1) ELSE 0

\* (NUM\.\d+)\s at offset s: the offset after the match, or -1.  \d+ is
\* greedy and gives digits back until \s matches.
MarkerEnd(text, s, num) ==
    LET dot == s + Len(num)
        ok_prefix == /\ dot < Len(text)
                     /\ Slice(text, s, dot) = num
                     /\ At(text, dot) = "."
        ds == IF ok_prefix
              THEN {d \in 1..DigitRun(text, dot + 1) :
                        /\ dot + 1 + d < Len(text)
                        /\ IsSpace(At(text, dot + 1 + d))}
              ELSE {}
    IN  IF ds = {} THEN -1 ELSE dot + 1 + SetMax(ds) + 1

\* \s*(NUM\.\d+)\s at offset q: \s* is greedy and gives whitespace back
RestMatch(text, q, num) ==
    LET ks == {k \in 0..SpaceRun(text, q) : MarkerEnd(text, q + k, num) # -1} IN
    IF ks = {} THEN NoMatch
    ELSE LET k == SetMax(ks) IN
         [start |-> q, end |-> MarkerEnd(text, q + k, num),
          g_start |-> q + k, g_end |-> MarkerEnd(text, q + k, num) - 1]

\* the whole pattern tried at offset p: ^ (offset 0 only, no MULTILINE)
\* first, then \n
MatchAt(text, p, num) ==
    LET first == IF p = 0 THEN RestMatch(text, p, num) ELSE NoMatch
        second == IF p < Len(text) /\ At(text, p) = "\n"
                  THEN RestMatch(text, p + 1, num) ELSE NoMatch
    IN  IF first # NoMatch THEN [first EXCEPT !.start = p]
        ELSE IF second # NoMatch THEN [second EXCEPT !.start = p]
        ELSE NoMatch

\* re.finditer(pattern, text): leftmost matches, each search resuming at the
\* end of the previous match
RECURSIVE FindIter(_, _, _)
FindIter(text, pos, num) ==
    IF pos > Len(text) THEN <<>>
    ELSE LET mt == MatchAt(text, pos, num) IN
         IF mt = NoMatch THEN FindIter(text, pos + 1, num)
         ELSE <<mt>> \o FindIter(text, mt.end, num)

\* sub_number.split('.')[-1]
RECURSIVE AfterLastDot(_)
AfterLastDot(s) ==
    IF s = <<>> THEN <<>>
    ELSE IF s[Len(s)] = "." THEN <<>>
    ELSE Append(AfterLastDot(SubSeq(s, 1, Len(s) - 1)), s[Len(s)])

\* str(idx + 1) for the small indexes of the model
DigitChars == <<"0", "1", "2", "3", "4", "5", "6", "7", "8", "9">>
RECURSIVE IntToStr(_)
IntToStr(n) ==
    IF n < 10 THEN <<DigitChars[n + 1]>>
    ELSE Append(IntToStr(n \div 10), DigitChars[(n % 10) + 1])

\* the literal pieces of the f-strings
sub_infix == <<"_", "s", "u", "b", "_">>
\* mutant: the intro and the span are joined by a single newline
single_newline == <<"\n">>
blank_line == <<"\n", "\n">>
\* " (§" and ")": the section sign is one character, written "sect" here
title_open == <<" ", "(", "sect">>
title_close == <<")">>

\* mutant: the span starts after the marker
SubStartAfterMarker(text, mt) == mt.end

\* start of a sub-clause's text: match.start(), after a leading newline
SubStart(text, mt) ==
    IF At(text, mt.start) = "\n" THEN mt.start + 1 ELSE mt.start

\* mutant: every span runs to the end of the text
SubEndOfText(text, markers, idx) == Len(text)

\* end of a sub-clause's text: the next marker's start, or the end of text
SubEnd(text, markers, idx) ==
    IF idx + 1 <= Len(markers) THEN markers[idx + 1].start ELSE Len(text)

\* the dictionary appended for marker idx (1-based here), sub_text non-empty
SubClause(c, text, intro_text, markers, idx) ==
    LET mt == markers[idx]
        sub_number == Slice(text, mt.g_start, mt.g_end)
        stripped == Strip(Slice(text, SubStart(text, mt), SubEnd(text, markers, idx)))
        sub_text == IF intro_text # <<>>
                    THEN intro_text \o blank_line \o stripped
                    ELSE stripped
        sub_idx == IF "." \in Range(sub_number)
                   THEN AfterLastDot(sub_number)
                   ELSE IntToStr(idx)
    IN  [clause_id |-> c.clause_id \o sub_infix \o sub_idx,
         clause_number |-> sub_number,
         clause_title |-> Get(c, "clause_title", <<>>) \o title_open
                              \o sub_number \o title_close,
         clause_text |-> sub_text,
         clause_type |-> Get(c, "clause_type", "unknown"),
         parent_clause_id |-> Get(c, "clause_id", PyNone)]

\* the for-loop over the markers: one dictionary per non-empty span
RECURSIVE SubClausesUpTo(_, _, _, _, _)
SubClausesUpTo(c, text, intro_text, markers, n) ==
    IF n = 0 THEN <<>>
    ELSE LET before == SubClausesUpTo(c, text, intro_text, markers, n - 1)
             mt == markers[n]
             stripped == Strip(Slice(text, SubStart(text, mt),
                                     SubEnd(text, markers, n)))
         IN  IF stripped # <<>>
             THEN Append(before, SubClause(c, text, intro_text, markers, n))
             ELSE before

\* the least number of markers that justifies splitting
min_markers == 2

\* _split_into_subclauses(clause)
split_into_subclauses(c) ==
    LET text == Get(c, "clause_text", <<>>)
        clause_num == Get(c, "clause_number", <<>>)
    IN  IF clause_num = <<>> \/ text = <<>> THEN <<c>>
        ELSE LET markers == FindIter(text, 0, clause_num) IN
             IF Len(markers) < min_markers THEN <<c>>
             ELSE LET intro_text == Strip(Slice(text, 0, markers[1].start))
                      subs == SubClausesUpTo(c, text, intro_text, markers,
                                             Len(markers))
                  IN  IF subs # <<>> THEN subs ELSE <<c>>

(***************************************************************************)
(* Inputs of the decomposer: texts are up to MaxLines lines joined by      *)
(* "\n", clause numbers are "" and "2".                                    *)
(***************************************************************************)
Lines ==
    { <<>>,
      <<"a">>,
      <<"2", ".", "1", " ", "a">>,
      <<"2", ".", "2", " ", "b">>,
      <<"2", ".", "1">>,
      <<" ", "2", ".", "2", " ">>,
      <<"a", " ", "2", ".", "1", " ", "b">>,
      <<"2", ".", "1", "2", " ", "c">> }

ClauseNumbers == {<<>>, <<"2">>}

RECURSIVE JoinLines(_)
JoinLines(ls) ==
    IF Len(ls) = 0 THEN <<>>
    ELSE IF Len(ls) = 1 THEN ls[1]
    ELSE ls[1] \o <<"\n">> \o JoinLines(Tail(ls))

Texts == {JoinLines(ls) : ls \in UNION {[1..n -> Lines] : n \in 1..MaxLines}}

MkClause(number, text) ==
    [clause_id |-> <<"c", "1">>, clause_number |-> number,
     clause_title |-> <<"T">>, clause_text |-> text, clause_type |-> "section"]

InitSplit ==
    /\ IdleManager
    /\ IdleMerge
    /\ IdlePipe
    /\ IdleWorkers
    /\ fpc = "input"
    /\ clause \in {MkClause(n, t) : n \in ClauseNumbers, t \in Texts}
    /\ subclauses = <<>>

\* the call of _split_into_subclauses
Split ==
    /\ fpc = "input"
    /\ subclauses' = split_into_subclauses(clause)
    /\ fpc' = "done"
    /\ UNCHANGED <<pmVars, mergeVars, clause, pipeVars>>
    /\ UNCHANGED workers

NextSplit == Split

SpecSplit == InitSplit /\ [][NextSplit]_vars

(***************************************************************************)
(* Claims about the decomposer (specification SpecSplit).                  *)
(***************************************************************************)
\* the markers re.finditer finds in the clause's text
FoundMarkers == FindIter(clause.clause_text, 0, clause.clause_number)
MarkerLabel(mt) == Slice(clause.clause_text, mt.g_start, mt.g_end)

\* C10: the result is the singleton of the unchanged clause when the number
\* is empty, the text is empty or fewer than 2 markers are found; with
\* n >= 2 markers found it holds exactly n sub-clauses, the i-th numbered by
\* the i-th marker.
C10_SingletonOrOnePerMarker ==
    fpc = "done" =>
        IF \/ clause.clause_number = <<>>
           \/ clause.clause_text = <<>>
           \/ Len(FoundMarkers) < 2
        THEN subclauses = <<clause>>
        ELSE /\ Len(subclauses) = Len(FoundMarkers)
             /\ \A i \in 1..Len(subclauses) :
                  /\ subclauses[i].clause_number = MarkerLabel(FoundMarkers[i])
                  /\ subclauses[i] # clause

\* three markers, the second one followed by whitespace only
C10_Witness ==
    /\ fpc = "done"
    /\ Len(FoundMarkers) = 3
    /\ Len(subclauses) = 3
    /\ clause.clause_text = JoinLines(<< <<"2", ".", "1", " ", "a">>,
                                         <<" ", "2", ".", "2", " ">>,
                                         <<"2", ".", "1", " ", "a">> >>)

C10_WitnessSingleMarker ==
    /\ fpc = "done"
    /\ Len(FoundMarkers) = 1
    /\ clause.clause_number # <<>>
    /\ subclauses = <<clause>>

\* the trimmed text before the first marker
C11_Intro == Strip(Slice(clause.clause_text, 0, FoundMarkers[1].start))

\* the trimmed text from marker i up to the next marker or the end
C11_Span(i) ==
    LET text == clause.clause_text
        mt == FoundMarkers[i]
        a == IF At(text, mt.start) = "\n" THEN mt.start + 1 ELSE mt.start
        b == IF i < Len(FoundMarkers) THEN FoundMarkers[i + 1].start
             ELSE Len(text)
    IN  Strip(Slice(text, a, b))

C11_Decomposed ==
    /\ fpc = "done"
    /\ clause.clause_number # <<>>
    /\ clause.clause_text # <<>>
    /\ Len(FoundMarkers) >= 2

\* C11: when decomposition applies and the trimmed text before the first
\* marker is non-empty, every sub-clause's text is that intro, a blank line
\* ("\n\n") and the sub-clause's span; when the intro is empty every
\* sub-clause's text is its span alone.
C11_IntroPrefixesEverySubClause ==
    C11_Decomposed =>
        \A i \in 1..Len(subclauses) :
            subclauses[i].clause_text =
                IF C11_Intro # <<>>
                THEN C11_Intro \o <<"\n", "\n">> \o C11_Span(i)
                ELSE C11_Span(i)

\* "a\n2.1 a\n2.2 b": the intro "a" frames both sub-clauses
C11_Witness ==
    /\ C11_Decomposed
    /\ C11_Intro = <<"a">>
    /\ Len(subclauses) = 2
    /\ subclauses[2].clause_text =
           <<"a", "\n", "\n", "2", ".", "2", " ", "b">>

\* decomposition with nothing before the first marker
C11_WitnessNoIntro ==
    /\ C11_Decomposed
    /\ C11_Intro = <<>>
    /\ subclauses[1].clause_text = <<"2", ".", "1", " ", "a">>

\* the range [from, to) of the text that marker i's sub-clause is cut from
C21_From(i) ==
    LET mt == FoundMarkers[i] IN
    IF At(clause.clause_text, mt.start) = "\n" THEN mt.start + 1 ELSE mt.start

C21_To(i) ==
    IF i < Len(FoundMarkers) THEN FoundMarkers[i + 1].start
    ELSE Len(clause.clause_text)

\* sub-clause i's text without the intro and the blank line put before it
C21_SpanOf(i) ==
    LET t == subclauses[i].clause_text IN
    IF C11_Intro # <<>> THEN SubSeq(t, Len(C11_Intro) + 3, Len(t)) ELSE t

C21_StartsWith(p, t) == Len(p) <= Len(t) /\ SubSeq(t, 1, Len(p)) = p

\* C21 as stated: the span of marker i runs from just after marker i to just
\* before marker i+1 (the end of the text for the last marker), so it does
\* not hold its own marker label.
C21_SpanExcludesOwnMarker ==
    C11_Decomposed =>
        \A i \in 1..Len(subclauses) :
            /\ C21_SpanOf(i) =
                   Strip(Slice(clause.clause_text, FoundMarkers[i].end, C21_To(i)))
            /\ ~C21_StartsWith(MarkerLabel(FoundMarkers[i]), C21_SpanOf(i))

\* C21 amended: the span of marker i is the trimmed text from the start of
\* marker i (after the newline that opens the match) to the start of marker
\* i+1 (the end of the text for the last marker); it begins with its own
\* marker label, the ranges of consecutive markers do not overlap and leave
\* out only the newline that opens the next marker, and the last range ends
\* with the text.
C21_SpanStartsAtItsMarker ==
    C11_Decomposed =>
        \A i \in 1..Len(subclauses) :
            /\ C21_SpanOf(i) =
                   Strip(Slice(clause.clause_text, C21_From(i), C21_To(i)))
            /\ C21_StartsWith(MarkerLabel(FoundMarkers[i]), C21_SpanOf(i))
            /\ C21_From(i) <= FoundMarkers[i].g_start
            /\ FoundMarkers[i].end <= C21_To(i) + 1
            /\ i < Len(subclauses) =>
                   /\ C21_From(i + 1) \in {C21_To(i), C21_To(i) + 1}
                   /\ C21_From(i + 1) = C21_To(i) + 1 =>
                          At(clause.clause_text, C21_To(i)) = "\n"
            /\ i = Len(subclauses) => C21_To(i) = Len(clause.clause_text)

\* "2.1 a\n2.2 b": each span holds its own label and stops before the next
C21_Witness ==
    /\ C11_Decomposed
    /\ clause.clause_text = JoinLines(<< <<"2", ".", "1", " ", "a">>,
                                         <<"2", ".", "2", " ", "b">> >>)
    /\ subclauses[1].clause_text = <<"2", ".", "1", " ", "a">>
    /\ subclauses[2].clause_text = <<"2", ".", "2", " ", "b">>

\* C22: each sub-clause's id is the parent's id, "_sub_" and the digits after
\* the last '.' of its marker, and the ids of the sub-clauses of one clause
\* are pairwise distinct.
C22_SubIdsFormedAndDistinct ==
    C11_Decomposed =>
        /\ \A i \in 1..Len(subclauses) :
              subclauses[i].clause_id =
                  clause.clause_id \o <<"_", "s", "u", "b", "_">>
                      \o AfterLastDot(MarkerLabel(FoundMarkers[i]))
        /\ \A i, j \in 1..Len(subclauses) :
              i # j => subclauses[i].clause_id # subclauses[j].clause_id

\* the offsets where a line starts with the clause number, '.', digits and a
\* whitespace character
C23_LineStartOccurrences ==
    LET text == clause.clause_text IN
    {p \in 0..(Len(text) - 1) :
        /\ p = 0 \/ At(text, p - 1) = "\n"
        /\ MarkerEnd(text, p, clause.clause_number) # -1}

\* C23: every line-start occurrence of the clause number followed by '.',
\* digits and a whitespace character is found as a marker and starts its own
\* sub-clause (two occurrences or more: the clause is decomposed and each
\* occurrence is the label of one of the sub-clauses), also when the marker
\* before it is immediately followed by a newline.
C23_EveryLineStartMarkerFound ==
    (/\ fpc = "done"
     /\ clause.clause_number # <<>>
     /\ Cardinality(C23_LineStartOccurrences) >= 2) =>
        /\ Len(subclauses) = Len(FoundMarkers)
        /\ \A p \in C23_LineStartOccurrences :
              \E i \in 1..Len(FoundMarkers) :
                  /\ FoundMarkers[i].g_start = p
                  /\ subclauses[i].clause_number = MarkerLabel(FoundMarkers[i])

(***************************************************************************)
(* The agents and their callers: DocumentAnalyzerAgent,                    *)
(* ClauseSplitterAgent, ClauseClassifierAgent, RiskDetectorAgent, driven   *)
(* by LegalDocAI.process_document (src/main.py), by run_all                *)
(* (src/debug_runner.py) or by a caller of the agents' list methods.       *)
(* A backend call is self.llm.structured_chat: it returns an object of     *)
(* the response model or raises; each agent catches Exception.             *)
(***************************************************************************)
MaxClauses == 2

\* the clauses of a document, as Clause.model_dump() gives them (the four
\* fields of the splitter's schema): a plain one, one with two sub-sections
\* and one with an intro and two sub-sections
Document ==
    << [clause_id |-> <<"c", "1">>, clause_number |-> <<"1">>,
       clause_title |-> <<"T">>, clause_text |-> <<"a">>],
      [clause_id |-> <<"c", "2">>, clause_number |-> <<"2">>,
       clause_title |-> <<"T">>,
       clause_text |-> <<"2", ".", "1", " ", "a", "\n",
                         "2", ".", "2", " ", "b">>],
      [clause_id |-> <<"c", "3">>, clause_number |-> <<"3">>,
       clause_title |-> <<"T">>,
       clause_text |-> <<"a", "\n", "3", ".", "1", " ", "a", "\n",
                         "3", ".", "2", " ", "b">>] >>

\* the clause lists a SplitterResponse can hold: up to MaxClauses clauses
\* of the document, in the document's order
Increasing(n) ==
    { f \in [1..n -> 1..Len(Document)] :
          \A i, j \in 1..n : i < j => f[i] < f[j] }
ClauseLists ==
    UNION { {[k \in 1..n |-> Document[f[k]]] : f \in Increasing(n)} :
            n \in 0..MaxClauses }

\* an id the backend may put in a reply instead of the prompt's clause_id
other_id == <<"c", "9">>

\* what a backend call does: it raises, or returns a validated object
Raised == [ok |-> FALSE]
Returned(v) == [ok |-> TRUE, value |-> v]

\* DocumentAnalysis objects of the backend
DocumentReplies ==
    { [document_type |-> "Mutual_NDA",
       parties |-> <<[name |-> "Acme", role |-> "Disclosing Party"],
                     [name |-> "Bolt", role |-> "Receiving Party"]>>,
       effective_date |-> "None", summary |-> "summary",
       key_observations |-> <<"observation">>] }

\* ", ".join(f"{p['name']} ({p['role']})" for p in parties), as its pieces
RECURSIVE PartiesStr(_)
PartiesStr(ps) ==
    IF ps = <<>> THEN <<>>
    ELSE LET one == <<ps[1].name, " (", ps[1].role, ")">>
         IN  IF Len(ps) = 1 THEN one
             ELSE one \o <<", ">> \o PartiesStr(Tail(ps))

\* analyze_document, success path: model_dump() plus formatted_summary
analyze_document_result(reply) ==
    [document_type |-> reply.document_type,
     parties |-> reply.parties,
     effective_date |-> reply.effective_date,
     summary |-> reply.summary,
     key_observations |-> reply.key_observations,
     formatted_summary |->
         <<"Document Type: ", reply.document_type, "\nParties: ">>
         \o PartiesStr(reply.parties) \o <<"\nSummary: ", reply.summary>>]

\* analyze_document, except path: the minimal context
analyze_document_fallback ==
    [document_type |-> "Unknown",
     parties |-> <<>>,
     effective_date |-> "None",
     summary |-> "Document analysis could not be completed.",
     key_observations |->
         <<"Automated analysis failed - manual review recommended">>,
     formatted_summary |->
         <<"Document Type: Unknown", "\nParties: Unknown",
           "\nSummary: Document analysis could not be completed.">>]

\* analyze_document(document_text), given what the backend call did
analyze_document(r) ==
    IF r.ok THEN analyze_document_result(r.value)
    ELSE analyze_document_fallback

\* mutant: the splitter returns an empty list instead of raising
split_document_swallows(r) ==
    IF r.ok THEN [raised |-> FALSE, value |-> r.value]
    ELSE [raised |-> FALSE, value |-> <<>>]

\* split_document(document_text): the clauses, or Exception
split_document(r) ==
    IF r.ok THEN [raised |-> FALSE, value |-> r.value]
    ELSE [raised |-> TRUE, class |-> "Exception",
          msg |-> "Clause splitting failed: "]

\* ClassificationResult objects the backend may return for clause c
ClassificationReplies(c) ==
    { [clause_id |-> c.clause_id, category |-> "Confidentiality",
       subcategory |-> "None", confidence |-> 90, reasoning |-> "r1"],
      [clause_id |-> other_id, category |-> "Termination",
       subcategory |-> "Duration", confidence |-> 40, reasoning |-> "r2"] }

\* mutant: the record is not linked to its clause
classify_clause_result_unlinked(reply, c) ==
    [clause_id |-> reply.clause_id,
     category |-> reply.category,
     subcategory |-> reply.subcategory,
     confidence |-> reply.confidence,
     reasoning |-> reply.reasoning,
     original_clause |-> PyNone]

\* classify_clause, success path: model_dump() plus original_clause
classify_clause_result(reply, c) ==
    [clause_id |-> reply.clause_id,
     category |-> reply.category,
     subcategory |-> reply.subcategory,
     confidence |-> reply.confidence,
     reasoning |-> reply.reasoning,
     original_clause |-> c]

\* mutant: the fallback is not keyed to the clause
create_fallback_unkeyed(c) ==
    [clause_id |-> unknown_id,
     category |-> "Miscellaneous",
     confidence |-> 0,
     reasoning |-> "Classification failed - assigned to miscellaneous category",
     subcategory |-> "Unknown",
     original_clause |-> PyNone]

\* _create_fallback_classification(clause); confidence in hundredths
create_fallback_classification(c) ==
    [clause_id |-> Get(c, "clause_id", unknown_id),
     category |-> "Miscellaneous",
     confidence |-> 0,
     reasoning |-> "Classification failed - assigned to miscellaneous category",
     subcategory |-> "Unknown",
     original_clause |-> c]

\* classify_clause(clause), given what the backend call did
classify_clause(r, c) ==
    IF r.ok THEN classify_clause_result(r.value, c)
    ELSE create_fallback_classification(c)

\* RiskAssessmentResult objects the backend may return for clause c
RiskReplies(c) ==
    { [clause_id |-> c.clause_id, risk_level |-> "HIGH", risk_score |-> 90,
       identified_risks |-> <<riskA, riskB>>,
       recommendations |-> <<"add a cap", "add a term", "add a cap">>,
       overall_assessment |-> "assessment two"],
      [clause_id |-> other_id, risk_level |-> "LOW", risk_score |-> 10,
       identified_risks |-> <<riskA>>,
       recommendations |-> <<"narrow the scope", "add a cap">>,
       overall_assessment |-> "assessment one"] }

\* detect_risks(clause, classification, document_summary), given what the
\* backend call did
detect_risks(r, c, classification) ==
    IF r.ok THEN detect_risks_result(r.value, c, classification)
    ELSE create_fallback_risk_assessment(c)

\* parameters of classify_multiple_clauses besides self
classify_multiple_clauses_params == {"clauses"}

\* the keyword arguments its caller passes
ClassifyKeywords(who) ==
    IF who \in {"process_document", "run_all"} THEN {"document_summary"}
    ELSE {}

\* Python binds a call only if every keyword names a parameter
BindsKeywords(keywords, params) == keywords \subseteq params

\* `classifications` of detect_risks_multiple_clauses after lines 112-113;
\* arg.none says that None was passed
NormalizedClassifications(arg, cs) ==
    IF arg.none THEN [i \in 1..Len(cs) |-> PyNone] ELSE arg.list

\* classifications[i] if i < len(classifications) else None (i from 1 here)
ClassificationAt(list, i) == IF i <= Len(list) THEN list[i] ELSE PyNone

\* the clause the risk loop is at (from 1 here)
RiskIndex == Len(risk_assessments) + 1

\* `subclauses` for the i-th clause of the loop, if there is one
SubclausesOf(cs, i) ==
    IF i <= Len(cs) THEN split_into_subclauses(cs[i]) ELSE <<>>

\* mutant: a decomposed clause is analyzed as a whole as well
RiskTargetParentFirst(c, subs, done) ==
    IF Len(subs) > 1 /\ done > 0 THEN subs[done] ELSE c

\* the clause handed to detect_risks next: the sub-clause after the `done`
\* already analyzed ones, or the clause itself when it was not decomposed
RiskTarget(c, subs, done) ==
    IF Len(subs) > 1 THEN subs[done + 1] ELSE c

\* a backend call of the pipeline and its state in the log
Call(stage, cid) == [stage |-> stage, clause_id |-> cid, result |-> "pending"]
Finished(call, r) ==
    [call EXCEPT !.result = IF r.ok THEN "returned" ELSE "raised"]
LogReturn(r) == [calls EXCEPT ![Len(calls)] = Finished(calls[Len(calls)], r)]

\* process_document and run_all begin with the analyzer; a caller of the
\* agents' list methods begins with a clause list in hand
InitPipe ==
    /\ IdleManager
    /\ IdleWorkers
    /\ fpc = "off"
    /\ IdleMerge
    /\ IdleSplit
    /\ entry \in {"process_document", "run_all", "direct"}
    /\ IF entry = "direct"
       THEN pd_pc = "classify" /\ clauses \in ClauseLists
       ELSE pd_pc = "analyze" /\ clauses = <<>>
    /\ in_flight = NoCall
    /\ calls = <<>>
    /\ document_context = NoContext
    /\ classifications = <<>>
    /\ risk_arg = <<>>
    /\ risk_assessments = <<>>
    /\ pd_error = NoError

\* analyze_document up to the backend call
AnalyzeCall ==
    /\ pd_pc = "analyze"
    /\ in_flight = NoCall
    /\ in_flight' = Call("analyze", <<>>)
    /\ calls' = Append(calls, in_flight')
    /\ UNCHANGED <<pmVars, pureVars, entry, pd_pc, document_context, clauses,
                   classifications, risk_arg, risk_assessments, pd_error>>
    /\ UNCHANGED workers

\* the call returns or raises; analyze_document returns a context either
\* way and the caller goes on to the splitter
AnalyzeReturn ==
    /\ pd_pc = "analyze"
    /\ in_flight.stage = "analyze"
    /\ \E r \in {Raised} \cup {Returned(d) : d \in DocumentReplies} :
         /\ document_context' = analyze_document(r)
         /\ calls' = LogReturn(r)
    /\ in_flight' = NoCall
    /\ pd_pc' = "split"
    /\ UNCHANGED <<pmVars, pureVars, entry, clauses, classifications,
                   risk_arg, risk_assessments, pd_error>>
    /\ UNCHANGED workers

\* split_document up to the backend call
SplitCall ==
    /\ pd_pc = "split"
    /\ in_flight = NoCall
    /\ in_flight' = Call("split", <<>>)
    /\ calls' = Append(calls, in_flight')
    /\ UNCHANGED <<pmVars, pureVars, entry, pd_pc, document_context, clauses,
                   classifications, risk_arg, risk_assessments, pd_error>>
    /\ UNCHANGED workers

\* the call returns the clauses, or split_document raises Exception, which
\* neither process_document nor run_all catches
SplitReturn ==
    /\ pd_pc = "split"
    /\ in_flight.stage = "split"
    /\ \E r \in {Raised} \cup {Returned(cs) : cs \in ClauseLists} :
         LET res == split_document(r) IN
         /\ calls' = LogReturn(r)
         /\ IF res.raised
            THEN /\ pd_pc' = "raised"
                 /\ pd_error' = [class |-> res.class, msg |-> res.msg]
                 /\ UNCHANGED clauses
            ELSE /\ pd_pc' = "classify"
                 /\ clauses' = res.value
                 /\ UNCHANGED pd_error
    /\ in_flight' = NoCall
    /\ UNCHANGED <<pmVars, pureVars, entry, document_context, classifications,
                   risk_arg, risk_assessments>>
    /\ UNCHANGED workers

\* the call of classify_multiple_clauses: Python raises TypeError when a
\* keyword argument names no parameter
ClassifyEnter ==
    /\ pd_pc = "classify"
    /\ IF BindsKeywords(ClassifyKeywords(entry), classify_multiple_clauses_params)
       THEN /\ pd_pc' = IF clauses = <<>> THEN "classified" ELSE "classifying"
            /\ UNCHANGED pd_error
       ELSE /\ pd_pc' = "raised"
            /\ pd_error' = [class |-> "TypeError",
                            msg |-> "unexpected keyword argument 'document_summary'"]
    /\ UNCHANGED <<pmVars, pureVars, entry, in_flight, calls, document_context,
                   clauses, classifications, risk_arg, risk_assessments>>
    /\ UNCHANGED workers

\* classify_clause up to the backend call, for the next clause of the list
ClassifyCall ==
    /\ pd_pc = "classifying"
    /\ in_flight = NoCall
    /\ in_flight' = Call("classify", clauses[Len(classifications) + 1].clause_id)
    /\ calls' = Append(calls, in_flight')
    /\ UNCHANGED <<pmVars, pureVars, entry, pd_pc, document_context, clauses,
                   classifications, risk_arg, risk_assessments, pd_error>>
    /\ UNCHANGED workers

\* the call returns or raises; the list grows by the result or the fallback
ClassifyReturn ==
    /\ pd_pc = "classifying"
    /\ in_flight.stage = "classify"
    /\ LET c == clauses[Len(classifications) + 1] IN
       \E r \in {Raised} \cup {Returned(x) : x \in ClassificationReplies(c)} :
         /\ classifications' = Append(classifications, classify_clause(r, c))
         /\ calls' = LogReturn(r)
    /\ in_flight' = NoCall
    /\ pd_pc' = IF Len(classifications) + 1 = Len(clauses)
                THEN "classified" ELSE "classifying"
    /\ UNCHANGED <<pmVars, pureVars, entry, document_context, clauses,
                   risk_arg, risk_assessments, pd_error>>
    /\ UNCHANGED workers

\* what a caller may pass as `classifications`: the classifier's list, that
\* list with one entry more or without its last entry, or None
RiskArguments ==
    {[none |-> FALSE, list |-> classifications], [none |-> TRUE, list |-> <<>>],
     [none |-> FALSE, list |-> Append(classifications, PyNone)]}
    \cup (IF classifications = <<>> THEN {}
          ELSE {[none |-> FALSE,
                 list |-> SubSeq(classifications, 1, Len(classifications) - 1)]})

\* the call of detect_risks_multiple_clauses, up to the first clause's
\* decomposition
RiskEnter ==
    /\ pd_pc = "classified"
    /\ \E arg \in RiskArguments :
         risk_arg' = NormalizedClassifications(arg, clauses)
    /\ subclauses' = SubclausesOf(clauses, 1)
    /\ pd_pc' = IF clauses = <<>> THEN "done" ELSE "risk"
    /\ UNCHANGED <<pmVars, fpc, sub_results, merged, clause, entry, in_flight,
                   calls, document_context, clauses, classifications,
                   risk_assessments, pd_error>>
    /\ UNCHANGED workers

\* detect_risks up to the backend call, for the clause or sub-clause at hand
RiskCall ==
    /\ pd_pc = "risk"
    /\ in_flight = NoCall
    /\ in_flight' = Call("risk", RiskTarget(clauses[RiskIndex], subclauses,
                                            Len(sub_results)).clause_id)
    /\ calls' = Append(calls, in_flight')
    /\ UNCHANGED <<pmVars, pureVars, entry, pd_pc, document_context, clauses,
                   classifications, risk_arg, risk_assessments, pd_error>>
    /\ UNCHANGED workers

\* the call returns or raises: detect_risks returns the result or the
\* fallback; a sub-clause's result joins sub_results and the last one
\* triggers the merge; the clause's record joins results and the loop goes
\* on to decompose the next clause
RiskReturn ==
    /\ pd_pc = "risk"
    /\ in_flight.stage = "risk"
    /\ \E target \in {RiskTarget(clauses[RiskIndex], subclauses,
                                 Len(sub_results))} :
       \E r \in {Raised} \cup {Returned(x) : x \in RiskReplies(target)} :
       \E res \in {detect_risks(r, target,
                                ClassificationAt(risk_arg, RiskIndex))} :
         /\ calls' = LogReturn(r)
         /\ IF Len(subclauses) > 1 /\ Len(sub_results) + 1 < Len(subclauses)
            THEN /\ sub_results' = Append(sub_results, res)
                 /\ UNCHANGED <<risk_assessments, pd_pc, subclauses>>
            ELSE /\ sub_results' = <<>>
                 /\ risk_assessments' =
                      Append(risk_assessments,
                             IF Len(subclauses) > 1
                             THEN merge_subclause_risks(
                                      clauses[RiskIndex],
                                      Append(sub_results, res))
                             ELSE res)
                 /\ subclauses' = SubclausesOf(clauses, RiskIndex + 1)
                 /\ pd_pc' = IF RiskIndex = Len(clauses) THEN "done" ELSE "risk"
    /\ in_flight' = NoCall
    /\ UNCHANGED <<pmVars, fpc, merged, clause, entry, document_context,
                   clauses, classifications, risk_arg, pd_error>>
    /\ UNCHANGED workers

NextPipe ==
    \/ AnalyzeCall \/ AnalyzeReturn
    \/ SplitCall \/ SplitReturn
    \/ ClassifyEnter
    \/ ClassifyCall \/ ClassifyReturn
    \/ RiskEnter
    \/ RiskCall \/ RiskReturn

SpecPipe == InitPipe /\ [][NextPipe]_vars

(***************************************************************************)
(* Claims about the pipeline (specification SpecPipe).                     *)
(***************************************************************************)
IsPrefix(p, t) == Len(p) <= Len(t) /\ SubSeq(t, 1, Len(p)) = p

\* the risk calls made for the i-th clause: for the clause itself or for
\* one of its sub-clauses
IsRiskCallFor(call, i) ==
    /\ call.stage = "risk"
    /\ \/ call.clause_id = clauses[i].clause_id
       \/ IsPrefix(clauses[i].clause_id \o sub_infix, call.clause_id)
RiskCallsFor(i) == {k \in 1..Len(calls) : IsRiskCallFor(calls[k], i)}

\* C13: a clause whose every risk call failed has, in the risk-assessment
\* list, a record with risk_level MEDIUM and risk_score 0.5 (50 hundredths),
\* whether it was analyzed directly or through its sub-clauses.
C13_FailedClauseIsMedium ==
    \A i \in 1..Len(risk_assessments) :
        (\A k \in RiskCallsFor(i) : calls[k].result = "raised") =>
            /\ risk_assessments[i].risk_level = "MEDIUM"
            /\ risk_assessments[i].risk_score = 50

\* a directly analyzed clause and a decomposed one, every call failed
C13_Witness ==
    /\ pd_pc = "done"
    /\ Len(risk_assessments) = 2
    /\ \E i, j \in 1..2 :
         /\ Cardinality(RiskCallsFor(i)) = 1
         /\ Cardinality(RiskCallsFor(j)) = 2
         /\ "sub_clause_results" \in DOMAIN risk_assessments[j]
    /\ \A k \in 1..Len(calls) :
         calls[k].stage = "risk" => calls[k].result = "raised"

\* the classification call made for the i-th clause, if it was made
ClassifyCallsFor(i) ==
    {k \in 1..Len(calls) : /\ calls[k].stage = "classify"
                           /\ calls[k].clause_id = clauses[i].clause_id}
SomeClauseCallFailed ==
    \E k \in 1..Len(calls) : /\ calls[k].stage \in {"classify", "risk"}
                             /\ calls[k].result = "raised"

\* C14: with the clause list in hand, a failed classification or risk call
\* of one clause does not end the pipeline with an exception; a failed
\* classification leaves the fallback record (Miscellaneous, confidence 0)
\* keyed to that clause in its place, and the stages still produce a
\* classification and a risk assessment for every clause of the list.
C14_ClauseFailureDoesNotAbort ==
    /\ SomeClauseCallFailed => pd_pc # "raised" /\ pd_error = NoError
    /\ \A i \in 1..Len(classifications) :
         (\E k \in ClassifyCallsFor(i) : calls[k].result = "raised") =>
             /\ classifications[i].category = "Miscellaneous"
             /\ classifications[i].confidence = 0
             /\ classifications[i].clause_id = clauses[i].clause_id
             /\ classifications[i].original_clause = clauses[i]
    /\ pd_pc \in {"classified", "risk", "done"} =>
           Len(classifications) = Len(clauses)
    /\ pd_pc = "done" => Len(risk_assessments) = Len(clauses)

\* the first clause's classification and risk calls failed; the second
\* clause was classified from a reply and both were risk-assessed
C14_Witness ==
    /\ pd_pc = "done"
    /\ Len(clauses) = 2
    /\ \E k \in ClassifyCallsFor(1) : calls[k].result = "raised"
    /\ \A k \in RiskCallsFor(1) : calls[k].result = "raised"
    /\ classifications[1].category = "Miscellaneous"
    /\ classifications[2].category = "Confidentiality"
    /\ risk_assessments[2].risk_level = "HIGH"

FailedCalls(stage) ==
    {k \in 1..Len(calls) : calls[k].stage = stage /\ calls[k].result = "raised"}

C15_WitnessAnalysisNotFatal ==
    /\ FailedCalls("analyze") = {1}
    /\ Len(clauses) = 2
    /\ calls[2].result = "returned"

StageRank(stage) ==
    CASE stage = "analyze" -> 0
      [] stage = "split" -> 1
      [] stage = "classify" -> 2
      [] stage = "risk" -> 3

CallsOf(stage) == {k \in 1..Len(calls) : calls[k].stage = stage}

\* C16: process_document and run_all run analyze, split, classify (every
\* clause) and risk-detect (every clause) in that order: a split call only
\* after the analysis call has ended, a classification call only after
\* the splitter returned the clause list, a risk call only after every
\* clause has its classification, never two calls in flight; and unless
\* the splitter failed, the run gets through classification and risk
\* detection instead of ending with an exception.
C16_StagesRunInOrder ==
    /\ \A j, k \in 1..Len(calls) :
         j < k => /\ StageRank(calls[j].stage) <= StageRank(calls[k].stage)
                  /\ calls[j].result # "pending"
    /\ \A k \in CallsOf("split") :
         \E j \in CallsOf("analyze") : j < k
    /\ entry # "direct" =>
         \A k \in CallsOf("classify") :
             \E j \in CallsOf("split") : j < k /\ calls[j].result = "returned"
    /\ CallsOf("risk") # {} => Len(classifications) = Len(clauses)
    /\ entry # "direct" /\ pd_pc = "raised" => FailedCalls("split") # {}

\* the ids of the clauses handed to the backend by the risk stage, in order
RiskCallIds ==
    LET risk == SelectSeq(calls, LAMBDA call : call.stage = "risk")
    IN  [k \in 1..Len(risk) |-> risk[k].clause_id]

\* the ids the routing rule asks for: the clause's own id when its
\* decomposition has one element, else the ids of its sub-clauses in order
C17_IdsFor(c) ==
    LET subs == split_into_subclauses(c)
    IN  IF Len(subs) > 1 THEN [j \in 1..Len(subs) |-> subs[j].clause_id]
        ELSE <<c.clause_id>>

RECURSIVE C17_IdsUpTo(_)
C17_IdsUpTo(n) ==
    IF n = 0 THEN <<>> ELSE C17_IdsUpTo(n - 1) \o C17_IdsFor(clauses[n])

\* C17: the risk stage calls the backend once for a clause whose
\* decomposition has one element and once per sub-clause, in order and not
\* for the parent, when it has k > 1; the k results are combined by the
\* merger into the clause's record; the calls made in all are the
\* decompositions' elements, clause after clause.
C17_OneCallPerDecompositionElement ==
    pd_pc \in {"risk", "done"} =>
        /\ IsPrefix(C17_IdsUpTo(Len(risk_assessments)), RiskCallIds)
        /\ IsPrefix(RiskCallIds, C17_IdsUpTo(Len(clauses)))
        /\ pd_pc = "done" => RiskCallIds = C17_IdsUpTo(Len(clauses))
        /\ \A i \in 1..Len(risk_assessments) :
             LET k == Len(split_into_subclauses(clauses[i]))
                 record == risk_assessments[i]
             IN  IF k > 1
                 THEN /\ "sub_clause_results" \in DOMAIN record
                      /\ Len(record.sub_clause_results) = k
                      /\ record = merge_subclause_risks(
                                      clauses[i], record.sub_clause_results)
                 ELSE "sub_clause_results" \notin DOMAIN record

\* a plain clause and a decomposed one: three calls, none for the parent
C17_Witness ==
    /\ pd_pc = "done"
    /\ Len(clauses) = 2
    /\ Len(RiskCallIds) = 3
    /\ RiskCallIds[1] = <<"c", "1">>
    /\ RiskCallIds[2] = <<"c", "3", "_", "s", "u", "b", "_", "1">>
    /\ RiskCallIds[3] = <<"c", "3", "_", "s", "u", "b", "_", "2">>

\* C18: once the classify stage has returned, the classification list has
\* one entry per clause, and once the risk stage has returned so has the
\* risk-assessment list; the i-th entry of either list was made for the
\* i-th clause (its original_clause is that clause), whether it came from
\* a reply, a fallback or a merge, and whether the risk stage was given the
\* whole classification list, a shorter one or none.
C18_OneEntryPerClauseInOrder ==
    /\ pd_pc \in {"classified", "risk", "done"} =>
           Len(classifications) = Len(clauses)
    /\ pd_pc = "done" => Len(risk_assessments) = Len(clauses)
    /\ Len(classifications) <= Len(clauses)
    /\ Len(risk_assessments) <= Len(clauses)
    /\ \A i \in 1..Len(classifications) :
           classifications[i].original_clause = clauses[i]
    /\ \A i \in 1..Len(risk_assessments) :
           risk_assessments[i].original_clause = clauses[i]

\* two clauses, a fallback classification and one from a reply, one risk
\* record merged and one from a fallback, a classification list of length 1
\* passed to the risk stage
C18_Witness ==
    /\ pd_pc = "done"
    /\ Len(clauses) = 2
    /\ Len(risk_arg) = 1
    /\ classifications[1].category = "Miscellaneous"
    /\ classifications[2].category = "Termination"
    /\ "sub_clause_results" \in DOMAIN risk_assessments[1]
    /\ risk_assessments[2].overall_assessment =
           "Risk assessment failed - manual review required"

\* C20: every classification and every risk assessment of the result has
\* the clause_id of the clause it was produced for (an existing clause),
\* whether the record came from a backend reply, a fallback or a merge.
C20_ClauseIdIsItsClause ==
    /\ \A i \in 1..Len(classifications) :
           classifications[i].clause_id = clauses[i].clause_id
    /\ \A i \in 1..Len(risk_assessments) :
           risk_assessments[i].clause_id = clauses[i].clause_id

\* the records of the risk list that come from the merger
MergedRecords ==
    {i \in 1..Len(risk_assessments) :
        "sub_clause_results" \in DOMAIN risk_assessments[i]}

\* C24: for a decomposed clause the merged record's classification is the
\* first sub-result's and equals the classification supplied for the parent
\* clause, every sub-result (fallback records included) carrying that same
\* classification.
C24_MergedClassificationIsParents ==
    \A i \in MergedRecords :
        LET m == risk_assessments[i]
            supplied == ClassificationAt(risk_arg, i)
        IN  /\ m.classification =
                   Get(m.sub_clause_results[1], "classification", PyNone)
            /\ m.classification = supplied
            /\ \A k \in 1..Len(m.sub_clause_results) :
                   Get(m.sub_clause_results[k], "classification", PyNone)
                       = supplied

\* C25: every record of the risk-assessment list has a recommendations list
\* without duplicate strings, whether it came from a direct single-clause
\* call, from the merger or from the fallback.
C25_RecommendationsUniqueInEveryRecord ==
    \A i \in 1..Len(risk_assessments) :
        LET recs == risk_assessments[i].recommendations IN
        \A a, b \in 1..Len(recs) : recs[a] = recs[b] => a = b

\* C29: for a decomposed clause the merged risk_level is at least the
\* risk_level of every sub-result under HIGH > MEDIUM > LOW > NONE, and when
\* the call of at least one sub-clause failed it is MEDIUM or HIGH.
C29_MergedLevelDominates ==
    \A i \in MergedRecords :
        LET m == risk_assessments[i] IN
        /\ \A k \in 1..Len(m.sub_clause_results) :
              Severity(m.risk_level) >=
                  Severity(m.sub_clause_results[k].risk_level)
        /\ (\E k \in RiskCallsFor(i) : calls[k].result = "raised") =>
              m.risk_level \in {"MEDIUM", "HIGH"}

\* a LOW sub-result followed by a failed sub-clause call: merged MEDIUM
C29_Witness ==
    /\ pd_pc = "done"
    /\ \E i \in MergedRecords :
         LET m == risk_assessments[i] IN
         /\ Len(m.sub_clause_results) = 2
         /\ m.sub_clause_results[1].risk_level = "LOW"
         /\ m.sub_clause_results[2].overall_assessment =
                "Risk assessment failed - manual review required"
         /\ \E k \in RiskCallsFor(i) : calls[k].result = "raised"
         /\ m.risk_level = "MEDIUM"

\* process_document's triage: [r for r in risk_assessments if
\* r.get('risk_level') == level]
risk_clauses(ra, level) ==
    LET at_level(r) == Get(r, "risk_level", PyNone) = level IN
    SelectSeq(ra, at_level)

high_risk_clauses == risk_clauses(risk_assessments, "HIGH")
medium_risk_clauses == risk_clauses(risk_assessments, "MEDIUM")
low_risk_clauses == risk_clauses(risk_assessments, "LOW")

\* the records of the risk list at a level, in the list's order
C30_AtLevel(level) ==
    LET idx == {i \in 1..Len(risk_assessments) :
                   risk_assessments[i].risk_level = level}
        RECURSIVE take(_)
        take(n) == IF n = 0 THEN <<>>
                   ELSE IF n \in idx THEN Append(take(n - 1), risk_assessments[n])
                   ELSE take(n - 1)
    IN  take(Len(risk_assessments))

\* C30: process_document, once the clauses are split, returns a result in
\* which every clause has a risk assessment and the high, medium and low
\* buckets are the assessments of level HIGH, MEDIUM and LOW in the list's
\* order (so pairwise disjoint, level NONE in none of them), the fallback
\* assessments being in the medium bucket.
C30_TriageBucketsPartition ==
    (/\ entry = "process_document"
     /\ pd_pc \in {"done", "raised"}
     /\ clauses # <<>>) =>
        /\ pd_pc = "done"
        /\ Len(risk_assessments) = Len(clauses)
        /\ high_risk_clauses = C30_AtLevel("HIGH")
        /\ medium_risk_clauses = C30_AtLevel("MEDIUM")
        /\ low_risk_clauses = C30_AtLevel("LOW")
        /\ \A i \in 1..Len(risk_assessments) :
              risk_assessments[i].overall_assessment =
                  "Risk assessment failed - manual review required"
              => \E j \in 1..Len(medium_risk_clauses) :
                     medium_risk_clauses[j] = risk_assessments[i]

(***************************************************************************)
(* LLMClient (src/src/legaldoc/utils/llm_client.py): the OpenAI-only       *)
(* client.  Its call state is the manager's: attempt_number, trace,        *)
(* sleeps, log and outcome; messages are the f-string's literal followed   *)
(* by the characters of str(e).                                            *)
(***************************************************************************)
\* stop=stop_after_attempt(3) of LLMClient.structured_chat
client_max_attempts == 3

\* the except-clauses of LLMClient.structured_chat, in their order
client_raises(raw) ==
    IF raw.class = "openai.RateLimitError"
    THEN [class |-> "RateLimitError",
          text |-> <<"Rate limit exceeded: ">> \o raw.msg]
    ELSE IF raw.kind = "Auth"
    THEN [class |-> "APIError",
          text |-> <<"Authentication failed - check your API key: ">> \o raw.msg]
    ELSE IF raw.class = "openai.APIError"
    THEN [class |-> "APIError", text |-> <<"OpenAI API error: ">> \o raw.msg]
    ELSE [class |-> "APIError", text |-> <<"Unexpected error: ">> \o raw.msg]

\* retry=retry_if_exception_type(RateLimitError), stop after 3 attempts,
\* reraise not set: what tenacity does after attempt n raised exc
client_retry_decision(exc, n) ==
    IF exc.class # "RateLimitError" THEN "reraise"
    ELSE IF n >= client_max_attempts THEN "retry_error"
    ELSE "sleep"

\* LLMClient.__init__: of the environment's credentials it reads
\* os.getenv("OPENAI_API_KEY") only
InitClient ==
    /\ config \in [OPENAI_API_KEY : KeyValues, GEMINI_API_KEY : KeyValues,
                    GOOGLE_API_KEY : KeyValues]
    /\ providers_available = NoProviders
    /\ active_provider = "None"
    /\ pc = "client_new"
    /\ attempt_number = 0
    /\ errors = <<>>
    /\ trace = <<>>
    /\ sleeps = <<>>
    /\ log = <<>>
    /\ outcome = NoOutcome
    /\ ncalls = 0
    /\ last_served = "None"
    /\ fpc = "off"
    /\ IdleMerge
    /\ IdleSplit
    /\ IdlePipe
    /\ IdleWorkers

\* `if not self.api_key: raise LLMError(...)`
ClientConstruct ==
    /\ pc = "client_new"
    /\ IF Truthy(config.OPENAI_API_KEY)
       THEN /\ pc' = "client_ready"
            /\ UNCHANGED outcome
       ELSE /\ pc' = "client_failed"
            /\ outcome' = [status |-> "raised", class |-> "LLMError",
                           by |-> "None", value |-> "None",
                           payload |-> <<"OpenAI API key not found.">>]
    /\ UNCHANGED <<config, providers_available, active_provider,
                   attempt_number, errors, trace, sleeps, log, ncalls,
                   last_served, pureVars, pipeVars>>
    /\ UNCHANGED workers

\* the decorated structured_chat is entered: tenacity starts at attempt 1
ClientStartCall ==
    /\ pc \in {"client_ready", "client_returned", "client_raised"}
    /\ ncalls < MaxCalls
    /\ ncalls' = ncalls + 1
    /\ trace' = <<>>
    /\ sleeps' = <<>>
    /\ log' = <<>>
    /\ attempt_number' = 1
    /\ outcome' = NoOutcome
    /\ pc' = "client_call"
    /\ UNCHANGED <<config, providers_available, active_provider, errors,
                   last_served, pureVars, pipeVars>>
    /\ UNCHANGED workers

\* one attempt: the request returns the validated object, or raises and
\* tenacity sleeps and retries, passes the exception on, or raises
\* RetryError once the attempts are used up
ClientAttempt ==
    /\ pc = "client_call"
    /\ \E r \in Responses :
         /\ trace' = Append(trace, AttemptRecord("openai", attempt_number, r))
         /\ IF r.ok
            THEN /\ pc' = "client_returned"
                 /\ outcome' = [status |-> "returned", class |-> "None",
                                by |-> "openai", value |-> r.value,
                                payload |-> <<>>]
                 /\ UNCHANGED <<attempt_number, sleeps, log>>
            ELSE \E exc \in {client_raises(r.raw)} :
                 \E decision \in {client_retry_decision(exc, attempt_number)} :
                   IF decision = "sleep"
                   THEN /\ sleeps' = Append(sleeps, wait_exponential(attempt_number))
                        /\ log' = Append(log, [level |-> "WARNING",
                                               what |-> "retrying",
                                               backend |-> "openai"])
                        /\ attempt_number' = attempt_number + 1
                        /\ UNCHANGED <<pc, outcome>>
                   ELSE /\ pc' = "client_raised"
                        /\ outcome' =
                             [status |-> "raised",
                              class |-> IF decision = "retry_error"
                                        THEN "RetryError" ELSE exc.class,
                              by |-> "openai", value |-> "None",
                              payload |-> <<exc.text>>]
                        /\ UNCHANGED <<attempt_number, sleeps, log>>
    /\ UNCHANGED <<config, providers_available, active_provider, errors,
                   ncalls, last_served, pureVars, pipeVars>>
    /\ UNCHANGED workers

NextClient == ClientConstruct \/ ClientStartCall \/ ClientAttempt

SpecClient == InitClient /\ [][NextClient]_vars

\* C19: LLMClient.structured_chat raises RateLimitError when the rate limit
\* was hit on each of its 3 attempts and APIError, without another attempt,
\* for any other failure; a caller sees no other exception class.
C19_RaisesRateLimitOrAPIError ==
    pc = "client_raised" =>
        /\ outcome.class \in {"RateLimitError", "APIError"}
        /\ outcome.class = "RateLimitError" <=>
               /\ Len(trace) = client_max_attempts
               /\ \A k \in 1..Len(trace) : trace[k].kind = "RateLimit"
        /\ outcome.class = "APIError" <=>
               trace[Len(trace)].kind # "RateLimit"

(***************************************************************************)
(* Two workers calling structured_chat on one LLMProviderManager.  What a  *)
(* call keeps is local to it: the list `errors` is a local variable and    *)
(* the attempt counter belongs to the retry state that the @retry wrapper  *)
(* creates for each call of the decorated adapter.  The manager's fields   *)
(* (availability table, active marker, clients) are only read.             *)
(***************************************************************************)
Workers == {"w1", "w2"}

\* credentials of a manager that could be constructed
WorkerConfigs ==
    {c \in [OPENAI_API_KEY : {"None", "sk-key"},
            GEMINI_API_KEY : {"None", "sk-key"},
            GOOGLE_API_KEY : {"None"}] :
        c.OPENAI_API_KEY # "None" \/ c.GEMINI_API_KEY # "None"}

\* what a backend invocation does here: a result, a rate limit or a bad key
WorkerResponses ==
    {r \in Responses : /\ r.value \in {"None", "obj1"}
                       /\ r.raw.kind \in {"ok", "RateLimit", "Auth"}}

\* the locals of a call that has not started
NoCallYet ==
    [pc |-> "idle", attempt_number |-> 0, errors |-> <<>>, trace |-> <<>>,
     outcome |-> NoOutcome]

\* structured_chat is entered: errors = [] and the first backend is chosen
EnterCall(available) ==
    LET b == FirstBackend(available, "None") IN
    [pc |-> IF b = "None" THEN "raised" ELSE b,
     attempt_number |-> 1,
     errors |-> <<>>,
     trace |-> <<>>,
     outcome |-> IF b = "None"
                 THEN [status |-> "raised", class |-> "AllProvidersFailedError",
                       by |-> "None", value |-> "None", payload |-> <<>>]
                 ELSE NoOutcome]

\* mutant: one retry state serves every call
retry_state_shared(w) == "w1"

\* the call whose retry state the wrapper of worker w's call uses
retry_state_of(w) == w

\* the addresses a RetryError's text may show after attempt n raised on r
AddrChoices(b, r, n) ==
    IF ~r.ok /\ RetryDecision(AdapterRaises(b, r.raw), n) = "retry_error"
    THEN FutureAddrs ELSE {<<>>}

\* One invocation of backend b in the call with locals loc, n being the
\* attempt number of its retry state, with everything that follows it up to
\* the next invocation or the end of the call.
CallStep(loc, n, b, r, addr, available) ==
    LET tr == Append(loc.trace, [backend |-> b, attempt |-> n,
                                 response |-> r, addr |-> addr])
    IN  IF r.ok
        THEN [loc EXCEPT !.pc = "returned", !.trace = tr,
                         !.outcome = [status |-> "returned", class |-> "None",
                                      by |-> b, value |-> r.value,
                                      payload |-> <<>>]]
        ELSE LET exc == AdapterRaises(b, r.raw)
                 decision == RetryDecision(exc, n)
                 errs == Append(loc.errors,
                                FailedPrefix(b) \o RaisedText(exc, decision, addr))
                 nxt == BackendAfter(b, available)
             IN  IF decision = "sleep"
                 THEN [loc EXCEPT !.trace = tr, !.attempt_number = n + 1]
                 ELSE IF ~CaughtByExcept(RaisedClass(exc, decision))
                 THEN [loc EXCEPT !.pc = "raised", !.trace = tr,
                           !.outcome = [status |-> "raised",
                                        class |-> RaisedClass(exc, decision),
                                        by |-> "None", value |-> "None",
                                        payload |-> <<>>]]
                 ELSE IF nxt = "None"
                 THEN [loc EXCEPT !.pc = "raised", !.trace = tr,
                           !.errors = errs, !.attempt_number = 1,
                           !.outcome = [status |-> "raised",
                                        class |-> "AllProvidersFailedError",
                                        by |-> "None", value |-> "None",
                                        payload |-> errs]]
                 ELSE [loc EXCEPT !.pc = nxt, !.trace = tr, !.errors = errs,
                                  !.attempt_number = 1]

\* a constructed manager that no call has used yet, and two idle workers
InitWorkers ==
    /\ config \in WorkerConfigs
    /\ providers_available = InitializedProviders
    /\ active_provider = InitializedActive
    /\ pc = "ready"
    /\ attempt_number = 0
    /\ errors = <<>>
    /\ trace = <<>>
    /\ sleeps = <<>>
    /\ log = <<>>
    /\ outcome = NoOutcome
    /\ ncalls = 0
    /\ last_served = "None"
    /\ fpc = "off"
    /\ IdleMerge
    /\ IdleSplit
    /\ IdlePipe
    /\ workers = [w \in Workers |-> NoCallYet]

\* a worker enters structured_chat
WorkerStart ==
    /\ \E w \in Workers :
         /\ workers[w].pc = "idle"
         /\ workers' = [workers EXCEPT ![w] = EnterCall(providers_available)]
    /\ UNCHANGED <<pmVars, pureVars, pipeVars>>

\* a worker's call invokes backend b
WorkerAttempt(b) ==
    /\ \E w \in Workers :
         /\ workers[w].pc = b
         /\ \E n \in {workers[retry_state_of(w)].attempt_number} :
            \E r \in WorkerResponses :
            \E addr \in AddrChoices(b, r, n) :
              workers' = [workers EXCEPT
                             ![w] = CallStep(workers[w], n, b, r, addr,
                                             providers_available)]
    /\ UNCHANGED <<pmVars, pureVars, pipeVars>>

WorkerOpenAIAttempt == WorkerAttempt("openai")
WorkerGeminiAttempt == WorkerAttempt("gemini")

NextWorkers == WorkerStart \/ WorkerOpenAIAttempt \/ WorkerGeminiAttempt

SpecWorkers == InitWorkers /\ [][NextWorkers]_vars

(***************************************************************************)
(* Claims about concurrent use (specification SpecWorkers).                *)
(***************************************************************************)
\* the locals of a call that runs alone and gets the responses of tr
RECURSIVE C27_Alone(_, _)
C27_Alone(available, tr) ==
    IF tr = <<>> THEN EnterCall(available)
    ELSE LET before == C27_Alone(available, SubSeq(tr, 1, Len(tr) - 1))
             last == tr[Len(tr)]
         IN  CallStep(before, before.attempt_number, before.pc, last.response,
                      last.addr, available)

\* C27: with the steps of two calls on one manager interleaved in any way,
\* each call is, at every moment, where it would be had it run alone with
\* the responses it got: same backends invoked, same attempt numbers (its
\* k-th invocation of a backend is attempt k, at most 3), same collected
\* errors, same outcome; and the manager's fields stay as constructed.
C27_CallsDoNotInterfere ==
    /\ providers_available = InitializedProviders
    /\ active_provider = InitializedActive
    /\ \A w \in Workers :
         workers[w].pc # "idle" =>
           LET tr == workers[w].trace IN
           /\ workers[w] = C27_Alone(providers_available, tr)
           /\ \A i \in 1..Len(tr) :
                /\ tr[i].attempt =
                      Cardinality({j \in 1..i : tr[j].backend = tr[i].backend})
                /\ tr[i].attempt <= 3
           /\ Len(workers[w].errors) <= 2
           /\ workers[w].outcome.status = "raised" =>
                  workers[w].outcome.payload = workers[w].errors

\* both calls under way at once: one on its third OpenAI attempt, the other
\* already failed over to Gemini and on its second attempt there
C27_Witness ==
    /\ workers["w1"].pc = "openai"
    /\ workers["w1"].attempt_number = 3
    /\ workers["w2"].pc = "gemini"
    /\ workers["w2"].attempt_number = 2
    /\ Len(workers["w2"].errors) = 1

\* both calls over: one failed on both backends, the other was served by
\* OpenAI at its first attempt
C27_WitnessEnded ==
    /\ workers["w1"].outcome.class = "AllProvidersFailedError"
    /\ Len(workers["w1"].trace) = 6
    /\ workers["w2"].outcome.by = "openai"
    /\ Len(workers["w2"].trace) = 1

====
